---- MODULE Spec2Model ----
(***************************************************************************)
(* Normalization and streaming conversation engine of vibe-kanban:         *)
(* the Claude stream-JSON normalizer (executors/claude.rs) and the Codex   *)
(* JSON-RPC normalizer (executors/codex/normalize_logs.rs), both emitting  *)
(* Add / Replace / Remove patches into one message store.                  *)
(*                                                                         *)
(* Strings are modelled as sequences of tokens (a token stands for a run   *)
(* of characters that the code never splits), so concatenation, prefix     *)
(* tests, trimming and splitting are computed, not assumed.                *)
(* Option<T> is a sequence of length at most one: None == <<>>,            *)
(* Some(x) == <<x>>.  A HashMap is a function with a finite domain.        *)
(***************************************************************************)
EXTENDS Integers, Sequences, FiniteSets, TLC

\* ------------------------------------------------------------------ bounds
\* Longest patch stream explored: a line is consumed only while the store
\* holds fewer patches than this.
MaxPatches == 3
\* The same for the runs over file-patch events, whose calls take an approval,
\* a repeated approval, a begin and an end to play out.
MaxPatchRun == 5
\* The same for the runs in which a user text arrives while two streamed
\* blocks are open: two Adds, the erase, the user message and one more delta.
MaxEraseRun == 6
\* Most session-id records the store may hold before input stops.
MaxSessionPushes == 2
\* Longest feedback queue explored in the app-server client.
MaxPending == 2
\* Most SendUserMessage requests issued before the client's input stops.
MaxRequests == 2
\* Most register_session calls of one client run.
MaxRegistrations == 2

\* ----------------------------------------------------------------- options
None == <<>>
Some(x) == <<x>>
IsSome(o) == Len(o) = 1
Get(o) == o[1]
UnwrapOr(o, d) == IF IsSome(o) THEN o[1] ELSE d

\* -------------------------------------------------------------------- maps
EmptyMap == [k \in {} |-> None]
Put(m, k, v) == [x \in (DOMAIN m) \cup {k} |-> IF x = k THEN v ELSE m[x]]
Del(m, k) == [x \in (DOMAIN m) \ {k} |-> m[x]]
Has(m, k) == k \in DOMAIN m

\* ------------------------------------------------------------------- texts
T(tok) == <<tok>>
\* format!("`{s}`"); the token BQ stands for the backquote character
BQ == "BQ"
Backticked(s) == <<BQ>> \o s \o <<BQ>>

RECURSIVE Join(_, _)
\* parts.join(sep) over a sequence of texts
Join(parts, sep) ==
    IF Len(parts) = 0 THEN <<>>
    ELSE IF Len(parts) = 1 THEN parts[1]
    ELSE parts[1] \o sep \o Join(Tail(parts), sep)

RECURSIVE SplitOn(_, _)
\* name.split("__"): the text cut at every separator token
SplitOn(s, sep) ==
    IF \A i \in 1..Len(s) : s[i] # sep THEN <<s>>
    ELSE LET i == CHOOSE j \in 1..Len(s) :
                      s[j] = sep /\ \A k \in 1..(j - 1) : s[k] # sep
         IN  <<SubSeq(s, 1, i - 1)>> \o SplitOn(SubSeq(s, i + 1, Len(s)), sep)

\* make_path_relative (workspace_utils::path): a path under the worktree
\* loses the worktree prefix, any other path is kept
WorktreeTok == "/wt/"
make_path_relative(p) ==
    IF Len(p) > 0 /\ Head(p) = WorktreeTok THEN Tail(p) ELSE p

\* --------------------------------------------------------- canonical entry
NoResult == None
NoMeta == None

Action(type, arg, arguments, changes, result) ==
    [type |-> type, arg |-> arg, arguments |-> arguments,
     changes |-> changes, result |-> result]
NoAction == Action("None", <<>>, None, <<>>, None)

\* NormalizedEntry with a kind other than ToolUse
PlainEntry(kind, content, meta) ==
    [kind |-> kind, content |-> content, tool_name |-> <<>>,
     action |-> NoAction, status |-> "None", denied_tool |-> <<>>,
     metadata |-> meta]

\* NormalizedEntry { entry_type: ToolUse { tool_name, action_type, status } }
ToolUseEntry(tool_name, action, status, content, meta) ==
    [kind |-> "ToolUse", content |-> content, tool_name |-> tool_name,
     action |-> action, status |-> status, denied_tool |-> <<>>,
     metadata |-> meta]

\* NormalizedEntry { entry_type: UserFeedback { denied_tool } }
FeedbackEntry(denied_tool, content) ==
    [kind |-> "UserFeedback", content |-> content, tool_name |-> <<>>,
     action |-> NoAction, status |-> "None", denied_tool |-> denied_tool,
     metadata |-> NoMeta]

NoEntry == PlainEntry("None", <<>>, NoMeta)

\* ------------------------------------------------------------------ patches
AddPatch(i, e) == [op |-> "add", index |-> i, entry |-> e]
ReplacePatch(i, e) == [op |-> "replace", index |-> i, entry |-> e]
RemovePatch(i) == [op |-> "remove", index |-> i, entry |-> NoEntry]

\* =========================================================================
\* Claude: tool data, action extraction, one-line content
\* =========================================================================
\* ClaudeToolData: the variant (kind), its serialized name, the field the
\* action is built from (arg) and the serialized `input` object
ToolData(kind, name, arg, input) ==
    [kind |-> kind, name |-> name, arg |-> arg, input |-> input]

get_name(tool_data) == tool_data.name

starts_with_mcp(name) == Len(name) >= 2 /\ name[1] = "mcp" /\ name[2] = "__"

\* format!("mcp:{}:{}", parts[1], parts[2]) when the name has three parts
mcp_label(name) ==
    LET parts == SplitOn(name, "__")
    IN  IF Len(parts) >= 3
        THEN <<"mcp", ":">> \o parts[2] \o <<":">> \o parts[3]
        ELSE name

\* the `input` of the serialized tool data (ClaudeToolWithInput)
tool_input(tool_data) == tool_data.input

extract_action_type(tool_data) ==
    CASE tool_data.kind = "Read" ->
            Action("FileRead", make_path_relative(tool_data.arg), None, <<>>, None)
      [] tool_data.kind = "Bash" ->
            Action("CommandRun", tool_data.arg, None, <<>>, NoResult)
      [] tool_data.kind \in {"Grep", "Glob"} ->
            Action("Search", tool_data.arg, None, <<>>, None)
      [] tool_data.kind \in {"WebFetch", "WebSearch"} ->
            Action("WebFetch", tool_data.arg, None, <<>>, None)
      [] tool_data.kind = "NotebookEdit" ->
            Action("Tool", T("NotebookEdit"), Some(tool_input(tool_data)), <<>>, None)
      [] tool_data.kind = "Oracle" ->
            Action("Other", T("Oracle"), None, <<>>, None)
      [] tool_data.kind = "Mermaid" ->
            Action("Other", T("Mermaid diagram"), None, <<>>, None)
      [] tool_data.kind = "Unknown" ->
            IF starts_with_mcp(get_name(tool_data))
            THEN Action("Tool", mcp_label(get_name(tool_data)),
                        Some(tool_input(tool_data)), <<>>, None)
            ELSE Action("Other", <<"Tool: ">> \o get_name(tool_data), None, <<>>, None)

generate_concise_content(tool_data, action_type) ==
    CASE action_type.type \in {"FileRead", "FileEdit", "CommandRun", "Search", "WebFetch"} ->
            Backticked(action_type.arg)
      [] action_type.type = "Tool" ->
            IF tool_data.kind = "NotebookEdit"
            THEN Backticked(make_path_relative(tool_data.arg))
            ELSE IF tool_data.kind = "Unknown" /\ starts_with_mcp(get_name(tool_data))
            THEN mcp_label(get_name(tool_data))
            ELSE get_name(tool_data)
      [] action_type.type = "Other" ->
            IF tool_data.kind = "Oracle"
            THEN (IF tool_data.arg # <<>>
                  THEN <<"Oracle: ">> \o Backticked(tool_data.arg)
                  ELSE T("Oracle"))
            ELSE IF tool_data.kind = "Mermaid" THEN T("Mermaid diagram")
            ELSE get_name(tool_data)

\* the ToolUse entry built for a tool_use content item (status Created)
tool_use_entry(tool_data, meta) ==
    LET action_type == extract_action_type(tool_data)
    IN  ToolUseEntry(get_name(tool_data), action_type, "Created",
                     generate_concise_content(tool_data, action_type), meta)

\* ClaudeToolCallInfo
ToolCallInfo(entry_idx, tool_data) ==
    [entry_index |-> entry_idx,
     tool_name |-> get_name(tool_data),
     tool_data |-> tool_data,
     content |-> generate_concise_content(tool_data, extract_action_type(tool_data))]

\* =========================================================================
\* Claude: tool_result content (a serde_json::Value) and its translation
\* =========================================================================
StrValue(s) == [t |-> "string", s |-> s, items |-> <<>>]
ArrValue(items) == [t |-> "array", s |-> <<>>, items |-> items]
JsonValue(tag, raw) == [t |-> tag, s |-> raw, items |-> <<>>]

\* numerals the model can parse
NumVal(tok) == CASE tok = "0" -> 0 [] tok = "1" -> 1 [] tok = "2" -> 2
IsNumTok(tok) == tok \in {"0", "1", "2"}

\* the text {"output":"<o>","exitCode":<c>}
AmpJson(o, c) == <<"{\"output\":\"", o, "\",\"exitCode\":", c, "}">>
IsAmpJson(s) ==
    /\ Len(s) = 5
    /\ s[1] = "{\"output\":\"" /\ s[3] = "\",\"exitCode\":" /\ s[5] = "}"
    /\ IsNumTok(s[4])

\* serde_json::from_str::<AmpBashResult>
parse_amp_bash_result(s) ==
    IF IsAmpJson(s) THEN Some([output |-> T(s[2]), exit_code |-> NumVal(s[4])])
    ELSE None

\* serde_json::from_str::<Value>: an object of the Amp shape or a number
parse_json(s) ==
    IF IsAmpJson(s) THEN Some(JsonValue("object", s))
    ELSE IF Len(s) = 1 /\ IsNumTok(s[1]) THEN Some(JsonValue("number", s))
    ELSE None

\* Value::to_string of a non-string value
value_to_string(v) ==
    IF v.t = "array"
    THEN <<"[">> \o Join([i \in 1..Len(v.items) |->
                            <<"{\"text\":\"">> \o v.items[i] \o <<"\"}">>], <<",">>)
               \o <<"]">>
    ELSE v.s

ToolResultValue(type, value) == [type |-> type, value |-> value]

normalize_claude_tool_result_value(content) ==
    IF content.t = "string"
    THEN IF IsSome(parse_json(content.s))
         THEN ToolResultValue("Json", Get(parse_json(content.s)))
         ELSE ToolResultValue("Markdown", StrValue(content.s))
    ELSE IF content.t = "array" /\ Len(content.items) > 0
    THEN LET joined == Join(content.items, <<"\n\n">>)
         IN  IF IsSome(parse_json(joined))
             THEN ToolResultValue("Json", Get(parse_json(joined)))
             ELSE ToolResultValue("Markdown", StrValue(joined))
    ELSE ToolResultValue("Json", content)

\* CommandRunResult { exit_status, output }
CommandRunResult(exit_status, output) ==
    [exit_status |-> exit_status, output |-> output]
ExitCode(code) == [t |-> "ExitCode", code |-> code, success |-> TRUE]
ExitSuccess(ok) == [t |-> "Success", code |-> 0, success |-> ok]

bash_result(content, is_error) ==
    LET content_str == IF content.t = "string" THEN content.s
                       ELSE value_to_string(content)
        amp == parse_amp_bash_result(content_str)
    IN  IF IsSome(amp)
        THEN CommandRunResult(Some(ExitCode(Get(amp).exit_code)), Some(Get(amp).output))
        ELSE CommandRunResult(
                 IF IsSome(is_error) THEN Some(ExitSuccess(~Get(is_error))) ELSE None,
                 Some(content_str))

result_status(is_error) == IF UnwrapOr(is_error, FALSE) THEN "Failed" ELSE "Success"

IsWhitespace(tok) == tok \in {" ", "\n", "\t"}
RECURSIVE trim_start(_)
trim_start(s) == IF Len(s) > 0 /\ IsWhitespace(Head(s)) THEN trim_start(Tail(s)) ELSE s
RECURSIVE trim_end(_)
trim_end(s) ==
    IF Len(s) > 0 /\ IsWhitespace(s[Len(s)]) THEN trim_end(SubSeq(s, 1, Len(s) - 1)) ELSE s
trim(s) == trim_end(trim_start(s))

USER_FEEDBACK_MARKER == "User feedback: "

\* variant of extract_denial_reason that keeps the text after the marker as is
extract_denial_reason_untrimmed(content) ==
    LET content_str == IF content.t = "string" THEN content.s
                       ELSE IF content.t = "array" THEN Join(content.items, <<"\n">>)
                       ELSE value_to_string(content)
        hits == {i \in 1..Len(content_str) : content_str[i] = USER_FEEDBACK_MARKER}
    IN  IF hits = {} THEN None
        ELSE LET i == CHOOSE j \in hits : \A k \in hits : j <= k
                 rest == SubSeq(content_str, i + 1, Len(content_str))
             IN  IF rest = <<>> THEN None ELSE Some(rest)

\* extract_denial_reason: the trimmed text after the first marker, if any
extract_denial_reason(content) ==
    LET content_str == IF content.t = "string" THEN content.s
                       ELSE IF content.t = "array" THEN Join(content.items, <<"\n">>)
                       ELSE value_to_string(content)
        hits == {i \in 1..Len(content_str) : content_str[i] = USER_FEEDBACK_MARKER}
    IN  IF hits = {} THEN None
        ELSE LET i == CHOOSE j \in hits : \A k \in hits : j <= k
                 rest == trim(SubSeq(content_str, i + 1, Len(content_str)))
             IN  IF rest = <<>> THEN None ELSE Some(rest)


\* =========================================================================
\* Claude: records of the stream-JSON protocol (ClaudeJson)
\* =========================================================================
TextItem(text) ==
    [type |-> "text", text |-> text, id |-> "", tool_data |-> ToolData("", <<>>, <<>>, <<>>),
     content |-> StrValue(<<>>), is_error |-> None]
ThinkingItem(thinking) ==
    [type |-> "thinking", text |-> thinking, id |-> "",
     tool_data |-> ToolData("", <<>>, <<>>, <<>>),
     content |-> StrValue(<<>>), is_error |-> None]
ToolUseItem(id, tool_data) ==
    [type |-> "tool_use", text |-> <<>>, id |-> id, tool_data |-> tool_data,
     content |-> StrValue(<<>>), is_error |-> None]
ToolResultItem(tool_use_id, content, is_error) ==
    [type |-> "tool_result", text |-> <<>>, id |-> tool_use_id,
     tool_data |-> ToolData("", <<>>, <<>>, <<>>),
     content |-> content, is_error |-> is_error]

\* ClaudeMessage
Message(id, role, model, content) ==
    [id |-> id, role |-> role, model |-> model, content |-> content]
NoMessage == Message(None, "", None, <<>>)

\* ClaudeContentBlockDelta
Delta(type, text) == [type |-> type, text |-> text]

\* ClaudeStreamEvent
StreamEvent(type, message, index, content_block, delta) ==
    [type |-> type, message |-> message, index |-> index,
     content_block |-> content_block, delta |-> delta]
NoEvent == StreamEvent("", NoMessage, 0, TextItem(<<>>), Delta("", <<>>))

\* ClaudeJson
ClaudeJson(type, session_id, subtype, api_key_source, message, tool_data, event, is_error) ==
    [type |-> type, session_id |-> session_id, subtype |-> subtype,
     api_key_source |-> api_key_source, message |-> message,
     tool_data |-> tool_data, event |-> event, is_error |-> is_error]

SystemRec(sid, subtype, key) ==
    ClaudeJson("system", sid, subtype, key, NoMessage, ToolData("", <<>>, <<>>, <<>>),
               NoEvent, None)
AssistantRec(sid, message) ==
    ClaudeJson("assistant", sid, None, None, message, ToolData("", <<>>, <<>>, <<>>),
               NoEvent, None)
UserRec(sid, message) ==
    ClaudeJson("user", sid, None, None, message, ToolData("", <<>>, <<>>, <<>>),
               NoEvent, None)
ToolUseRec(sid, tool_data) ==
    ClaudeJson("tool_use", sid, None, None, NoMessage, tool_data, NoEvent, None)
ToolResultRec(sid, is_error) ==
    ClaudeJson("tool_result", sid, None, None, NoMessage, ToolData("", <<>>, <<>>, <<>>),
               NoEvent, is_error)
StreamEventRec(sid, event) ==
    ClaudeJson("stream_event", sid, None, None, NoMessage, ToolData("", <<>>, <<>>, <<>>),
               event, None)
ResultRec(sid, is_error) ==
    ClaudeJson("result", sid, None, None, NoMessage, ToolData("", <<>>, <<>>, <<>>),
               NoEvent, is_error)
UnknownRec ==
    ClaudeJson("unknown", None, None, None, NoMessage, ToolData("", <<>>, <<>>, <<>>),
               NoEvent, None)

\* =========================================================================
\* Claude: ClaudeLogProcessor
\* =========================================================================
\* P is the processor while one record is normalized: the index provider
\* (idx), the patches returned so far (out) and the processor's fields.
Emit(P, patch) == [P EXCEPT !.out = Append(@, patch)]

\* patches.push(add_normalized_entry(entry_index_provider.next(), entry))
EmitAdd(P, entry) ==
    [P EXCEPT !.out = Append(@, AddPatch(P.idx, entry)), !.idx = @ + 1]

extract_session_id(claude_json) ==
    IF claude_json.type = "unknown" THEN None ELSE claude_json.session_id

\* warn_if_unmanaged_key that warns for every key source that is named
warn_if_unmanaged_key_any(src) ==
    IF IsSome(src)
    THEN Some(PlainEntry("ErrorMessage",
                         T("Claude Code + ANTHROPIC_API_KEY detected."), NoMeta))
    ELSE None

warn_if_unmanaged_key(src) ==
    IF src = Some(T("ANTHROPIC_API_KEY"))
    THEN Some(PlainEntry("ErrorMessage",
                         T("Claude Code + ANTHROPIC_API_KEY detected."), NoMeta))
    ELSE None

\* extract_model_name that does not remember the model it announced
extract_model_name_repeat(P, message) ==
    IF IsSome(message.model)
    THEN EmitAdd(P, PlainEntry("SystemMessage",
                               <<"System initialized with model: ">> \o Get(message.model),
                               NoMeta))
    ELSE P

extract_model_name(P, message) ==
    IF P.model_name = None /\ IsSome(message.model)
    THEN EmitAdd([P EXCEPT !.model_name = message.model],
                 PlainEntry("SystemMessage",
                            <<"System initialized with model: ">> \o Get(message.model),
                            NoMeta))
    ELSE P

content_item_to_normalized_entry(item, role) ==
    CASE item.type = "text" ->
            IF role = "assistant"
            THEN Some(PlainEntry("AssistantMessage", item.text, Some("item")))
            ELSE None
      [] item.type = "thinking" ->
            Some(PlainEntry("Thinking", item.text, Some("item")))
      [] item.type = "tool_use" -> Some(tool_use_entry(item.tool_data, Some("item")))
      [] item.type = "tool_result" -> None

\* StreamingContentState
ContentState(kind, buffer, entry_idx) ==
    [kind |-> kind, buffer |-> buffer, entry_index |-> entry_idx]
\* StreamingMessageState
MessageState(role, contents) == [role |-> role, contents |-> contents]

from_content_block(content_block) ==
    CASE content_block.type = "text" -> Some(ContentState("Text", content_block.text, None))
      [] content_block.type = "thinking" ->
            Some(ContentState("Thinking", content_block.text, None))
      [] OTHER -> None

\* from_delta that never makes a block
from_delta_none(delta) == None

from_delta(delta) ==
    CASE delta.type = "text_delta" -> Some(ContentState("Text", <<>>, None))
      [] delta.type = "thinking_delta" -> Some(ContentState("Thinking", <<>>, None))
      [] OTHER -> None

\* variant of apply_content_delta that keeps only the latest delta
apply_content_delta_overwrite(state, delta) ==
    IF \/ state.kind = "Text" /\ delta.type = "text_delta"
       \/ state.kind = "Thinking" /\ delta.type = "thinking_delta"
    THEN [state EXCEPT !.buffer = delta.text]
    ELSE state

apply_content_delta(state, delta) ==
    IF \/ state.kind = "Text" /\ delta.type = "text_delta"
       \/ state.kind = "Thinking" /\ delta.type = "thinking_delta"
    THEN [state EXCEPT !.buffer = @ \o delta.text]
    ELSE state

to_content_item(state) ==
    IF state.kind = "Text" THEN TextItem(state.buffer) ELSE ThinkingItem(state.buffer)

content_entry_index(state, content_index) ==
    IF Has(state.contents, content_index)
    THEN state.contents[content_index].entry_index
    ELSE None

\* StreamingMessageState::apply_content_block_delta on message `mid`
apply_content_block_delta(P, mid, index, delta) ==
    LET st == P.sm[mid]
        vacant == ~Has(st.contents, index)
    IN  IF vacant /\ from_delta(delta) = None THEN P
        ELSE
        LET before == IF vacant THEN Get(from_delta(delta)) ELSE st.contents[index]
            after == apply_content_delta(before, delta)
            entry == content_item_to_normalized_entry(to_content_item(after), st.role)
            keep == [P EXCEPT !.sm[mid].contents = Put(st.contents, index, after)]
        IN  IF entry = None THEN keep
            ELSE IF IsSome(after.entry_index)
            THEN Emit(keep, ReplacePatch(Get(after.entry_index), Get(entry)))
            ELSE [EmitAdd(keep, Get(entry)) EXCEPT
                    !.sm[mid].contents[index].entry_index = Some(P.idx),
                    !.streamed = Put(@, <<mid, index>>, P.idx)]

\* assistant_item that shows a tool_result item as an entry of its own
assistant_item_shows_result(P, item, role, reuse) ==
    CASE item.type = "tool_use" ->
            LET id_num == UnwrapOr(reuse, P.idx)
                entry == tool_use_entry(item.tool_data, Some("item"))
                reg == [P EXCEPT
                          !.tool_map = Put(@, item.id, ToolCallInfo(id_num, item.tool_data)),
                          !.answered = Del(@, item.id)]
            IN  IF reuse = None THEN EmitAdd(reg, entry)
                ELSE Emit(reg, ReplacePatch(id_num, entry))
      [] item.type \in {"text", "thinking"} ->
            LET entry == content_item_to_normalized_entry(item, role)
            IN  IF entry = None THEN P
                ELSE IF reuse = None THEN EmitAdd(P, Get(entry))
                ELSE Emit(P, ReplacePatch(Get(reuse), Get(entry)))
      [] OTHER -> EmitAdd(P, PlainEntry("SystemMessage", T("tool_result"), Some("item")))

\* one content item of an assistant record; `reuse` is the entry index the
\* streamed block at the same content position registered, if any
assistant_item(P, item, role, reuse) ==
    CASE item.type = "tool_use" ->
            LET id_num == UnwrapOr(reuse, P.idx)
                entry == tool_use_entry(item.tool_data, Some("item"))
                reg == [P EXCEPT
                          !.tool_map = Put(@, item.id, ToolCallInfo(id_num, item.tool_data)),
                          !.answered = Del(@, item.id)]
            IN  IF reuse = None THEN EmitAdd(reg, entry)
                ELSE Emit(reg, ReplacePatch(id_num, entry))
      [] item.type \in {"text", "thinking"} ->
            LET entry == content_item_to_normalized_entry(item, role)
            IN  IF entry = None THEN P
                ELSE IF reuse = None THEN EmitAdd(P, Get(entry))
                ELSE Emit(P, ReplacePatch(Get(reuse), Get(entry)))
      [] OTHER -> P

RECURSIVE assistant_items(_, _, _, _)
\* for (content_index, item) in message.content.iter().enumerate(), from item k
assistant_items(P, message, state, k) ==
    IF k > Len(message.content) THEN P
    ELSE LET reuse == IF IsSome(state) THEN content_entry_index(Get(state), k - 1)
                      ELSE None
         IN  assistant_items(assistant_item(P, message.content[k], message.role, reuse),
                             message, state, k + 1)

\* ClaudeJson::Assistant
normalize_assistant(P, message) ==
    LET P1 == extract_model_name(P, message)
        found == IsSome(message.id) /\ Has(P1.sm, Get(message.id))
        state == IF found THEN Some(P1.sm[Get(message.id)]) ELSE None
        P2 == IF found THEN [P1 EXCEPT !.sm = Del(@, Get(message.id))] ELSE P1
    IN  assistant_items(P2, message, state, 1)

HasTextItem(message) ==
    \E k \in 1..Len(message.content) : message.content[k].type = "text"

\* remove_all naming the indices 0 .. n-1 one after the other
remove_all_ascending(P, n) ==
    [P EXCEPT !.out = @ \o [k \in 1..n |-> RemovePatch(k - 1)]]

RECURSIVE remove_all(_, _)
\* for _ in 0..cur { patches.push(remove_diff("0")) }
remove_all(P, n) == IF n = 0 THEN P ELSE remove_all(Emit(P, RemovePatch(0)), n - 1)

RECURSIVE user_texts(_, _, _)
user_texts(P, message, k) ==
    IF k > Len(message.content) THEN P
    ELSE LET item == message.content[k]
         IN  user_texts(IF item.type = "text"
                        THEN EmitAdd(P, PlainEntry("UserMessage", item.text, Some("item")))
                        ELSE P,
                        message, k + 1)

\* the AmpResume erase and the UserMessage entries of a user record
amp_resume(P, strat, message) ==
    IF strat = "AmpResume" /\ HasTextItem(message)
    THEN LET erased == IF P.idx > 0
                       THEN [remove_all(P, P.idx) EXCEPT
                               !.idx = 0, !.tool_map = EmptyMap, !.answered = EmptyMap,
                               !.streamed = EmptyMap]
                       ELSE P
         IN  user_texts(erased, message, 1)
    ELSE P

display_tool_name(info) ==
    IF info.tool_data.kind = "Bash" THEN info.tool_name
    ELSE IF starts_with_mcp(get_name(info.tool_data))
    THEN mcp_label(get_name(info.tool_data))
    ELSE get_name(info.tool_data)

IsOpaqueTool(tool_data) ==
    tool_data.kind \in {"Unknown", "Oracle", "Mermaid", "CodebaseSearchAgent", "NotebookEdit"}

\* variant of bash_replace that leaves the status as the ToolUse was created
bash_replace_created(info, content, is_error) ==
    ReplacePatch(info.entry_index,
        ToolUseEntry(info.tool_name,
                     Action("CommandRun", info.content, None, <<>>,
                            Some(bash_result(content, is_error))),
                     "Created", info.content, NoMeta))

\* the Replace of a Bash tool_result
bash_replace(info, content, is_error) ==
    ReplacePatch(info.entry_index,
        ToolUseEntry(info.tool_name,
                     Action("CommandRun", info.content, None, <<>>,
                            Some(bash_result(content, is_error))),
                     result_status(is_error), info.content, NoMeta))

\* the Replace of an opaque (unknown / MCP / Amp utility) tool_result
opaque_replace(info, content, is_error) ==
    LET tool_name == get_name(info.tool_data)
        label == IF starts_with_mcp(tool_name) THEN mcp_label(tool_name) ELSE tool_name
    IN  ReplacePatch(info.entry_index,
            ToolUseEntry(label,
                         Action("Tool", label, Some(tool_input(info.tool_data)), <<>>,
                                Some(normalize_claude_tool_result_value(content))),
                         result_status(is_error), info.content, NoMeta))

\* one tool_result item of a user record
user_tool_result(P, item) ==
    IF ~Has(P.tool_map, item.id) THEN P
    ELSE
    LET info == P.tool_map[item.id]
        seen == [P EXCEPT !.answered =
                    Put(@, item.id, [content |-> item.content, is_error |-> item.is_error])]
        replaced ==
            IF info.tool_data.kind = "Bash"
            THEN Emit(seen, bash_replace(info, item.content, item.is_error))
            ELSE IF IsOpaqueTool(info.tool_data)
            THEN Emit(seen, opaque_replace(info, item.content, item.is_error))
            ELSE seen
        denial == extract_denial_reason(item.content)
    IN  IF UnwrapOr(item.is_error, FALSE) /\ IsSome(denial)
        THEN EmitAdd(replaced, FeedbackEntry(display_tool_name(info), Get(denial)))
        ELSE replaced

RECURSIVE user_tool_results(_, _, _)
user_tool_results(P, message, k) ==
    IF k > Len(message.content) THEN P
    ELSE user_tool_results(
             IF message.content[k].type = "tool_result"
             THEN user_tool_result(P, message.content[k]) ELSE P,
             message, k + 1)

\* ClaudeJson::User
normalize_user(P, strat, message) ==
    user_tool_results(amp_resume(P, strat, message), message, 1)

\* ClaudeJson::System
normalize_system(P, claude_json) ==
    LET warning == warn_if_unmanaged_key(claude_json.api_key_source)
        P1 == IF IsSome(warning) THEN EmitAdd(P, Get(warning)) ELSE P
    IN  IF claude_json.subtype = Some(T("init")) THEN P1
        ELSE IF IsSome(claude_json.subtype)
        THEN EmitAdd(P1, PlainEntry("SystemMessage",
                                    <<"System: ">> \o Get(claude_json.subtype),
                                    Some("record")))
        ELSE EmitAdd(P1, PlainEntry("SystemMessage", T("System message"), Some("record")))

\* the streaming message the stream events apply to
current_streaming(P) ==
    IF IsSome(P.smid) /\ Has(P.sm, Get(P.smid)) THEN P.smid ELSE None

\* ClaudeJson::StreamEvent
normalize_stream_event(P, event) ==
    CASE event.type = "message_start" ->
            IF event.message.role = "assistant"
            THEN LET P1 == extract_model_name(P, event.message)
                 IN  IF IsSome(event.message.id)
                     THEN [P1 EXCEPT
                             !.sm = Put(@, Get(event.message.id),
                                        MessageState(event.message.role, EmptyMap)),
                             !.smid = event.message.id,
                             !.streamed = [b \in {c \in DOMAIN @ :
                                                    c[1] # Get(event.message.id)} |-> @[b]]]
                     ELSE [P1 EXCEPT !.smid = None]
            ELSE [P EXCEPT !.smid = None]
      [] event.type = "content_block_start" ->
            IF IsSome(current_streaming(P)) /\ IsSome(from_content_block(event.content_block))
            THEN [P EXCEPT !.sm[Get(P.smid)].contents =
                     Put(@, event.index, Get(from_content_block(event.content_block))),
                           !.streamed = Del(@, <<Get(P.smid), event.index>>)]
            ELSE P
      [] event.type = "content_block_delta" ->
            IF IsSome(current_streaming(P))
            THEN apply_content_block_delta(P, Get(P.smid), event.index, event.delta)
            ELSE P
      [] event.type = "message_stop" ->
            IF IsSome(P.smid)
            THEN [P EXCEPT !.sm = Del(@, Get(P.smid)), !.smid = None]
            ELSE P
      [] OTHER -> P

\* ClaudeJson::Result
normalize_result(P, strat, claude_json) ==
    IF strat = "AmpResume" /\ UnwrapOr(claude_json.is_error, FALSE)
    THEN EmitAdd(P, PlainEntry("ErrorMessage", T("result"), Some("record")))
    ELSE P

\* ClaudeLogProcessor::normalize_entries
normalize_entries(P, strat, claude_json) ==
    CASE claude_json.type = "system" -> normalize_system(P, claude_json)
      [] claude_json.type = "assistant" -> normalize_assistant(P, claude_json.message)
      [] claude_json.type = "user" -> normalize_user(P, strat, claude_json.message)
      [] claude_json.type = "tool_use" ->
            EmitAdd(P, tool_use_entry(claude_json.tool_data, Some("record")))
      [] claude_json.type = "tool_result" -> P
      [] claude_json.type = "stream_event" -> normalize_stream_event(P, claude_json.event)
      [] claude_json.type = "result" -> normalize_result(P, strat, claude_json)
      [] claude_json.type = "unknown" ->
            EmitAdd(P, PlainEntry("SystemMessage", T("Unrecognized JSON message: "), NoMeta))

\* =========================================================================
\* Codex: per-call state and its canonical entries
\* =========================================================================
\* ToolStatus::default()
DefaultStatus == "Created"

\* CommandState
CommandState(index, command, stdout, stderr, formatted_output, status, exit_code, awaiting_approval, call_id) ==
    [index |-> index, command |-> command, stdout |-> stdout, stderr |-> stderr,
     formatted_output |-> formatted_output, status |-> status,
     exit_code |-> exit_code, awaiting_approval |-> awaiting_approval,
     call_id |-> call_id]
DefaultCommandState ==
    CommandState(None, <<>>, <<>>, <<>>, None, DefaultStatus, None, FALSE, "")

build_command_output(stdout, stderr) ==
    LET out == trim(stdout)
        err == trim(stderr)
        sections == (IF out # <<>> THEN <<<<"stdout:\n">> \o out>> ELSE <<>>)
                    \o (IF err # <<>> THEN <<<<"stderr:\n">> \o err>> ELSE <<>>)
    IN  IF sections = <<>> THEN None ELSE Some(Join(sections, <<"\n\n">>))

\* command_entry reporting the collected streams even when the end event
\* supplied formatted output
command_entry_unformatted(c) ==
    ToolUseEntry(T("bash"),
        Action("CommandRun", c.command, None, <<>>,
               Some(CommandRunResult(
                   IF IsSome(c.exit_code) THEN Some(ExitCode(Get(c.exit_code))) ELSE None,
                   build_command_output(c.stdout, c.stderr)))),
        c.status, Backticked(c.command), Some(c.call_id))

command_entry(c) ==
    ToolUseEntry(T("bash"),
        Action("CommandRun", c.command, None, <<>>,
               Some(CommandRunResult(
                   IF IsSome(c.exit_code) THEN Some(ExitCode(Get(c.exit_code))) ELSE None,
                   IF IsSome(c.formatted_output) THEN c.formatted_output
                   ELSE build_command_output(c.stdout, c.stderr)))),
        c.status, Backticked(c.command), Some(c.call_id))

\* McpInvocation and McpToolState
McpInvocation(server, tool, arguments) ==
    [server |-> server, tool |-> tool, arguments |-> arguments]
McpToolState(index, invocation, result, status) ==
    [index |-> index, invocation |-> invocation, result |-> result, status |-> status]

mcp_entry(m) ==
    LET tool_name == <<"mcp", ":">> \o m.invocation.server \o <<":">> \o m.invocation.tool
    IN  ToolUseEntry(tool_name,
                     Action("Tool", tool_name, m.invocation.arguments, <<>>, m.result),
                     m.status, m.invocation.tool, NoMeta)

\* WebSearchState
WebSearchState(index, query, status) ==
    [index |-> index, query |-> query, status |-> status]

web_search_entry(w) ==
    ToolUseEntry(T("web_search"),
                 Action("WebFetch", UnwrapOr(w.query, T("...")), None, <<>>, None),
                 w.status, UnwrapOr(w.query, T("Web search")), NoMeta)

\* PatchEntry
PatchEntry(index, path, changes, status, awaiting_approval, call_id) ==
    [index |-> index, path |-> path, changes |-> changes, status |-> status,
     awaiting_approval |-> awaiting_approval, call_id |-> call_id]

patch_entry(e) ==
    ToolUseEntry(T("edit"), Action("FileEdit", e.path, None, e.changes, None),
                 e.status, e.path, Some(e.call_id))

\* CodexProtoFileChange per path, in the iteration order of the HashMap
ProtoChange(path, kind, move_path) == [path |-> path, kind |-> kind, move_path |-> move_path]

normalize_file_change(c) ==
    LET relative == make_path_relative(c.path)
    IN  [path |-> relative,
         changes |->
            CASE c.kind = "Add" -> <<[t |-> "Write", new_path |-> <<>>]>>
              [] c.kind = "Delete" -> <<[t |-> "Delete", new_path |-> <<>>]>>
              [] c.kind = "Update" ->
                    (IF IsSome(c.move_path)
                     THEN <<[t |-> "Rename",
                             new_path |-> make_path_relative(Get(c.move_path))]>>
                     ELSE <<>>)
                    \o <<[t |-> "Edit", new_path |-> <<>>]>>]

normalize_file_changes(changes) ==
    [i \in 1..Len(changes) |-> normalize_file_change(changes[i])]

\* StreamingText
StreamingText(index, content) == [index |-> index, content |-> content]

\* =========================================================================
\* Codex: lines and events
\* =========================================================================
NoInvocation == McpInvocation(<<>>, <<>>, None)
\* Result<CallToolResult, String> of McpToolCallEnd
McpOk(is_error, content, structured_content) ==
    [ok |-> TRUE, is_error |-> is_error, content |-> content,
     structured_content |-> structured_content, err |-> <<>>]
McpErr(err) ==
    [ok |-> FALSE, is_error |-> None, content |-> <<>>, structured_content |-> None,
     err |-> err]
TextBlock(text) == [t |-> "text", text |-> text]
ImageBlock == [t |-> "image", text |-> <<>>]

NoEv ==
    [type |-> "", call_id |-> "", text |-> <<>>, command |-> <<>>, reason |-> None,
     changes |-> <<>>, stream |-> "", exit_code |-> 0, invocation |-> NoInvocation,
     result |-> McpErr(<<>>), success |-> FALSE, session_id |-> "", model |-> <<>>,
     reasoning_effort |-> None, plan |-> <<>>, has_info |-> FALSE]

EvSessionConfigured(sid, model, effort) ==
    [NoEv EXCEPT !.type = "SessionConfigured", !.session_id = sid, !.model = model,
                 !.reasoning_effort = effort]
EvText(type, text) == [NoEv EXCEPT !.type = type, !.text = text]
EvPlain(type) == [NoEv EXCEPT !.type = type]
EvExecApprovalRequest(call_id, command, reason) ==
    [NoEv EXCEPT !.type = "ExecApprovalRequest", !.call_id = call_id,
                 !.command = command, !.reason = reason]
EvApplyPatchApprovalRequest(call_id, changes) ==
    [NoEv EXCEPT !.type = "ApplyPatchApprovalRequest", !.call_id = call_id,
                 !.changes = changes]
EvExecCommandBegin(call_id, command) ==
    [NoEv EXCEPT !.type = "ExecCommandBegin", !.call_id = call_id, !.command = command]
EvExecCommandOutputDelta(call_id, stream, chunk) ==
    [NoEv EXCEPT !.type = "ExecCommandOutputDelta", !.call_id = call_id,
                 !.stream = stream, !.text = chunk]
EvExecCommandEnd(call_id, exit_code, formatted_output) ==
    [NoEv EXCEPT !.type = "ExecCommandEnd", !.call_id = call_id,
                 !.exit_code = exit_code, !.text = formatted_output]
EvMcpToolCallBegin(call_id, invocation) ==
    [NoEv EXCEPT !.type = "McpToolCallBegin", !.call_id = call_id,
                 !.invocation = invocation]
EvMcpToolCallEnd(call_id, result) ==
    [NoEv EXCEPT !.type = "McpToolCallEnd", !.call_id = call_id, !.result = result]
EvPatchApplyBegin(call_id, changes) ==
    [NoEv EXCEPT !.type = "PatchApplyBegin", !.call_id = call_id, !.changes = changes]
EvPatchApplyEnd(call_id, success) ==
    [NoEv EXCEPT !.type = "PatchApplyEnd", !.call_id = call_id, !.success = success]
EvWebSearchBegin(call_id) == [NoEv EXCEPT !.type = "WebSearchBegin", !.call_id = call_id]
EvWebSearchEnd(call_id, query) ==
    [NoEv EXCEPT !.type = "WebSearchEnd", !.call_id = call_id, !.text = query]
EvViewImageToolCall(path) == [NoEv EXCEPT !.type = "ViewImageToolCall", !.text = path]
EvPlanUpdate(plan, explanation) ==
    [NoEv EXCEPT !.type = "PlanUpdate", !.plan = plan, !.reason = explanation]
EvTokenCount(has_info) == [NoEv EXCEPT !.type = "TokenCount", !.has_info = has_info]

\* ApprovalStatus
ApprovalStatus(t, reason) == [t |-> t, reason |-> reason]

\* one stdout line, by the first parser of normalize_logs that accepts it
NoLine ==
    [shape |-> "", error |-> <<>>, tool_name |-> <<>>,
     approval_status |-> ApprovalStatus("Pending", None),
     is_new_conversation |-> FALSE, rollout_path |-> <<>>, session_id |-> "",
     model |-> <<>>, reasoning_effort |-> None, method |-> <<>>, params_ok |-> FALSE,
     event |-> NoEv]
LaunchErrorLine(error) == [NoLine EXCEPT !.shape = "Error", !.error = error]
ApprovalResponseLine(tool_name, status) ==
    [NoLine EXCEPT !.shape = "Approval", !.tool_name = tool_name,
                   !.approval_status = status]
NewConversationLine(rollout_path, model, effort) ==
    [NoLine EXCEPT !.shape = "JSONRPCResponse", !.is_new_conversation = TRUE,
                   !.rollout_path = rollout_path, !.model = model,
                   !.reasoning_effort = effort]
OtherResponseLine == [NoLine EXCEPT !.shape = "JSONRPCResponse"]
SessionConfiguredLine(sid, model, effort) ==
    [NoLine EXCEPT !.shape = "ServerNotification", !.method = T("sessionConfigured"),
                   !.session_id = sid, !.model = model, !.reasoning_effort = effort]
OtherServerNotificationLine ==
    [NoLine EXCEPT !.shape = "ServerNotification", !.method = T("authStatusChange")]
\* a sessionConfigured line cut short: only the regex fallback reads it
TruncatedSessionLine(sid) ==
    [NoLine EXCEPT !.shape = "Truncated", !.session_id = sid]
EventLine(ev) ==
    [NoLine EXCEPT !.shape = "JSONRPCNotification",
                   !.method = <<"codex/event", "/">>, !.params_ok = TRUE, !.event = ev]
OtherNotificationLine ==
    [NoLine EXCEPT !.shape = "JSONRPCNotification", !.method = T("other")]
BadParamsLine ==
    [NoLine EXCEPT !.shape = "JSONRPCNotification", !.method = <<"codex/event", "/">>]
JunkLine == [NoLine EXCEPT !.shape = "Junk"]

\* SessionHandler::extract_session_id_from_rollout_path: the id is the last
\* component of the rollout file name
RolloutPath(sid) == <<"rollout-", sid, ".jsonl">>
extract_session_id_from_rollout_path(path) ==
    IF Len(path) = 3 /\ path[1] = "rollout-" /\ path[3] = ".jsonl"
    THEN Some(path[2]) ELSE None

\* =========================================================================
\* Codex: normalize_logs, one operator per line kind and event
\* =========================================================================
\* The state of the loop is threaded as a record S:
\*   idx, out, sids   entry index provider, patches and session ids pushed
\*   assistant, thinking, commands, mcp_tools, state_patches, web_searches,
\*   token_usage_info  the fields of LogState

upsert_normalized_entry(S, index, normalized_entry, is_new) ==
    IF is_new THEN Emit(S, AddPatch(index, normalized_entry))
    ELSE Emit(S, ReplacePatch(index, normalized_entry))

\* variant of add_normalized_entry that reads the provider without advancing it
add_normalized_entry_stale(S, normalized_entry) ==
    upsert_normalized_entry(S, S.idx, normalized_entry, TRUE)

\* index_provider.next() followed by the Add
add_normalized_entry(S, normalized_entry) ==
    upsert_normalized_entry([S EXCEPT !.idx = @ + 1], S.idx, normalized_entry, TRUE)

replace_normalized_entry(S, index, normalized_entry) ==
    upsert_normalized_entry(S, index, normalized_entry, FALSE)

push_session_id(S, sid) == [S EXCEPT !.sids = Append(@, sid)]

clear_streaming(S) == [S EXCEPT !.assistant = None, !.thinking = None]

\* type_ is "assistant" or "thinking", mode is "Append" or "Set"; the result
\* is the state after the update together with the upsert of the entry
streaming_text_update(S, content, type_, mode) ==
    LET entry == S[type_]
        is_new == entry = None
        index == IF is_new THEN S.idx ELSE Get(entry).index
        text == IF is_new THEN content
                ELSE IF mode = "Append" THEN Get(entry).content \o content
                ELSE content
        S1 == [S EXCEPT ![type_] = Some(StreamingText(index, text)),
                        !.idx = IF is_new THEN @ + 1 ELSE @]
        kind == IF type_ = "assistant" THEN "AssistantMessage" ELSE "Thinking"
    IN  upsert_normalized_entry(S1, index, PlainEntry(kind, text, NoMeta), is_new)

handle_model_params(S, model, reasoning_effort) ==
    LET params == <<<<"model: ">> \o model>>
                  \o (IF IsSome(reasoning_effort)
                      THEN <<<<"reasoning effort: ">> \o Get(reasoning_effort)>>
                      ELSE <<>>)
    IN  add_normalized_entry(S, PlainEntry("SystemMessage", Join(params, <<"  ">>), NoMeta))

handle_jsonrpc_response(S, line) ==
    IF ~line.is_new_conversation THEN S
    ELSE LET sid == extract_session_id_from_rollout_path(line.rollout_path)
             S1 == IF IsSome(sid) THEN push_session_id(S, Get(sid)) ELSE S
         IN  handle_model_params(S1, line.model, line.reasoning_effort)

approval_display_tool_name(tool_name) ==
    CASE tool_name = T("codex.exec_command") -> T("Exec Command")
      [] tool_name = T("codex.apply_patch") -> T("Edit")
      [] OTHER -> tool_name

approval_to_normalized_entry_opt(line) ==
    LET tool_name == approval_display_tool_name(line.tool_name)
        st == line.approval_status
    IN  CASE st.t = "Denied" ->
                Some(FeedbackEntry(tool_name,
                    trim(UnwrapOr(st.reason, T("User denied this tool use request")))))
          [] st.t = "TimedOut" ->
                Some(PlainEntry("ErrorMessage",
                    <<"Approval timed out for tool ">> \o tool_name, NoMeta))
          [] OTHER -> None

\* the Approval branch of the loop
approval_line(S, line) ==
    LET entry == approval_to_normalized_entry_opt(line)
    IN  IF IsSome(entry) THEN add_normalized_entry(S, Get(entry)) ELSE S

\* the ServerNotification branch of the loop
server_notification(S, line) ==
    IF line.method = T("sessionConfigured")
    THEN handle_model_params(push_session_id(S, line.session_id),
                             line.model, line.reasoning_effort)
    ELSE S

\* ---- events ------------------------------------------------------------
on_session_configured(S, ev) ==
    handle_model_params(push_session_id(S, ev.session_id), ev.model, ev.reasoning_effort)

on_agent_message_delta(S, ev) ==
    streaming_text_update([S EXCEPT !.thinking = None], ev.text, "assistant", "Append")

\* on_agent_reasoning_delta leaving the assistant slot as it is
on_agent_reasoning_delta_keep(S, ev) ==
    streaming_text_update(S, ev.text, "thinking", "Append")

on_agent_reasoning_delta(S, ev) ==
    streaming_text_update([S EXCEPT !.assistant = None], ev.text, "thinking", "Append")

on_agent_message(S, ev) ==
    [streaming_text_update([S EXCEPT !.thinking = None], ev.text, "assistant", "Set")
        EXCEPT !.assistant = None]

on_agent_reasoning(S, ev) ==
    [streaming_text_update([S EXCEPT !.assistant = None], ev.text, "thinking", "Set")
        EXCEPT !.thinking = None]

on_exec_approval_request(S, ev) ==
    LET S0 == clear_streaming(S)
        command_text ==
            IF ev.command = <<>>
            THEN (IF IsSome(ev.reason) /\ Get(ev.reason) # <<>> THEN Get(ev.reason)
                  ELSE T("command execution"))
            ELSE Join(ev.command, <<" ">>)
        old == IF Has(S0.commands, ev.call_id) THEN S0.commands[ev.call_id]
               ELSE DefaultCommandState
        c1 == [old EXCEPT !.command = IF @ = <<>> THEN command_text ELSE @,
                          !.awaiting_approval = TRUE]
    IN  IF IsSome(c1.index)
        THEN replace_normalized_entry(
                 [S0 EXCEPT !.commands = Put(@, ev.call_id, c1)],
                 Get(c1.index), command_entry(c1))
        ELSE add_normalized_entry(
                 [S0 EXCEPT !.commands = Put(@, ev.call_id, [c1 EXCEPT !.index = Some(S0.idx)])],
                 command_entry(c1))

\* remove_entries that stops after the first drained entry
remove_entries_first(S, entries) ==
    IF entries = <<>> \/ Head(entries).index = None THEN S
    ELSE Emit(S, RemovePatch(Get(Head(entries).index)))

\* Remove patches for the drained entries that have an index
RECURSIVE remove_entries(_, _)
remove_entries(S, entries) ==
    IF entries = <<>> THEN S
    ELSE remove_entries(
             IF IsSome(Head(entries).index)
             THEN Emit(S, RemovePatch(Get(Head(entries).index))) ELSE S,
             Tail(entries))

\* Add one entry per normalized change; acc collects the PatchEntry values
RECURSIVE add_patch_entries(_, _, _, _, _)
add_patch_entries(S, acc, normalized, awaiting_approval, call_id) ==
    IF normalized = <<>> THEN [S |-> S, entries |-> acc]
    ELSE LET n == Head(normalized)
             entry == PatchEntry(None, n.path, n.changes, "Created", awaiting_approval, call_id)
         IN  add_patch_entries(add_normalized_entry(S, patch_entry(entry)),
                               Append(acc, [entry EXCEPT !.index = Some(S.idx)]),
                               Tail(normalized), awaiting_approval, call_id)

on_apply_patch_approval_request(S, ev) ==
    LET S0 == clear_streaming(S)
        normalized == normalize_file_changes(ev.changes)
        old == IF Has(S0.state_patches, ev.call_id) THEN S0.state_patches[ev.call_id] ELSE <<>>
        S1 == remove_entries(S0, old)
        R == add_patch_entries(S1, <<>>, normalized, TRUE, ev.call_id)
    IN  [R.S EXCEPT !.state_patches = Put(@, ev.call_id, R.entries)]

\* variant of on_exec_command_begin that adds the entry without tracking the call
on_exec_command_begin_untracked(S, ev) ==
    LET S0 == clear_streaming(S)
        command_text == Join(ev.command, <<" ">>)
        c == CommandState(None, command_text, <<>>, <<>>, None, "Created", None, FALSE,
                          ev.call_id)
    IN  IF command_text = <<>> THEN S0
        ELSE add_normalized_entry(S0, command_entry(c))

on_exec_command_begin(S, ev) ==
    LET S0 == clear_streaming(S)
        command_text == Join(ev.command, <<" ">>)
        c == CommandState(None, command_text, <<>>, <<>>, None, "Created", None, FALSE,
                          ev.call_id)
    IN  IF command_text = <<>> THEN S0
        ELSE add_normalized_entry(
                 [S0 EXCEPT !.commands = Put(@, ev.call_id, [c EXCEPT !.index = Some(S0.idx)])],
                 command_entry(c))

on_exec_command_output_delta(S, ev) ==
    IF ~Has(S.commands, ev.call_id) \/ ev.text = <<>> THEN S
    ELSE LET c == S.commands[ev.call_id]
             c1 == IF ev.stream = "Stdout" THEN [c EXCEPT !.stdout = @ \o ev.text]
                   ELSE [c EXCEPT !.stderr = @ \o ev.text]
             S1 == [S EXCEPT !.commands = Put(@, ev.call_id, c1)]
         IN  IF c1.index = None THEN S1
             ELSE replace_normalized_entry(S1, Get(c1.index), command_entry(c1))

\* variant of on_exec_command_end that opens an entry for an untracked call
on_exec_command_end_upsert(S, ev) ==
    LET c == IF Has(S.commands, ev.call_id) THEN S.commands[ev.call_id]
             ELSE [DefaultCommandState EXCEPT !.call_id = ev.call_id]
        c1 == [c EXCEPT !.formatted_output = Some(ev.text),
                        !.exit_code = Some(ev.exit_code),
                        !.status = IF ev.exit_code = 0 THEN "Success" ELSE "Failed"]
        S1 == [S EXCEPT !.commands = Del(@, ev.call_id)]
    IN  IF c1.index = None THEN add_normalized_entry(S1, command_entry(c1))
        ELSE replace_normalized_entry(S1, Get(c1.index), command_entry(c1))

on_exec_command_end(S, ev) ==
    IF ~Has(S.commands, ev.call_id) THEN S
    ELSE LET c == S.commands[ev.call_id]
             c1 == [c EXCEPT !.formatted_output = Some(ev.text),
                             !.exit_code = Some(ev.exit_code),
                             !.awaiting_approval = FALSE,
                             !.status = IF ev.exit_code = 0 THEN "Success" ELSE "Failed"]
             S1 == [S EXCEPT !.commands = Del(@, ev.call_id)]
         IN  IF c1.index = None THEN S1
             ELSE replace_normalized_entry(S1, Get(c1.index), command_entry(c1))

on_background_event(S, ev) ==
    add_normalized_entry(S, PlainEntry("SystemMessage",
                                       <<"Background event: ">> \o ev.text, NoMeta))

on_stream_error(S, ev) ==
    add_normalized_entry(S, PlainEntry("ErrorMessage",
                                       <<"Stream error: ">> \o ev.text, NoMeta))

on_mcp_tool_call_begin(S, ev) ==
    LET S0 == clear_streaming(S)
        m == McpToolState(None, ev.invocation, None, "Created")
    IN  add_normalized_entry(
            [S0 EXCEPT !.mcp_tools = Put(@, ev.call_id, [m EXCEPT !.index = Some(S0.idx)])],
            mcp_entry(m))

RECURSIVE block_texts(_)
block_texts(content) ==
    IF content = <<>> THEN <<>> ELSE <<Head(content).text>> \o block_texts(Tail(content))

mcp_result(result) ==
    IF result.ok
    THEN IF \A k \in 1..Len(result.content) : result.content[k].t = "text"
         THEN ToolResultValue("Markdown", StrValue(Join(block_texts(result.content), <<"\n">>)))
         ELSE ToolResultValue("Json",
                  IF IsSome(result.structured_content) THEN Get(result.structured_content)
                  ELSE ArrValue(result.content))
    ELSE ToolResultValue("Markdown", StrValue(result.err))

on_mcp_tool_call_end(S, ev) ==
    IF ~Has(S.mcp_tools, ev.call_id) THEN S
    ELSE LET m == S.mcp_tools[ev.call_id]
             m1 == [m EXCEPT !.status = IF ev.result.ok
                                        THEN result_status(ev.result.is_error)
                                        ELSE "Failed",
                             !.result = Some(mcp_result(ev.result))]
             S1 == [S EXCEPT !.mcp_tools = Del(@, ev.call_id)]
         IN  IF m1.index = None THEN S1
             ELSE replace_normalized_entry(S1, Get(m1.index), mcp_entry(m1))

\* the loop over the existing entries of PatchApplyBegin; k counts from 1
RECURSIVE begin_existing(_, _, _, _, _)
begin_existing(S, acc, entries, normalized, k) ==
    IF k > Len(entries) THEN [S |-> S, entries |-> acc]
    ELSE LET e0 == entries[k]
             e1 == IF k <= Len(normalized)
                   THEN [e0 EXCEPT !.path = normalized[k].path,
                                   !.changes = normalized[k].changes]
                   ELSE e0
             e2 == [e1 EXCEPT !.status = "Created", !.awaiting_approval = FALSE]
         IN  IF IsSome(e2.index)
             THEN begin_existing(replace_normalized_entry(S, Get(e2.index), patch_entry(e2)),
                                 Append(acc, e2), entries, normalized, k + 1)
             ELSE begin_existing(add_normalized_entry(S, patch_entry(e2)),
                                 Append(acc, [e2 EXCEPT !.index = Some(S.idx)]),
                                 entries, normalized, k + 1)

on_patch_apply_begin(S, ev) ==
    LET S0 == clear_streaming(S)
        normalized == normalize_file_changes(ev.changes)
    IN  IF Has(S0.state_patches, ev.call_id)
        THEN LET entries == S0.state_patches[ev.call_id]
                 R1 == begin_existing(S0, <<>>, entries, normalized, 1)
                 rest == IF Len(normalized) > Len(entries)
                         THEN SubSeq(normalized, Len(entries) + 1, Len(normalized))
                         ELSE <<>>
                 R2 == add_patch_entries(R1.S, R1.entries, rest, FALSE, ev.call_id)
             IN  [R2.S EXCEPT !.state_patches = Put(@, ev.call_id, R2.entries)]
        ELSE LET R == add_patch_entries(S0, <<>>, normalized, FALSE, ev.call_id)
             IN  [R.S EXCEPT !.state_patches = Put(@, ev.call_id, R.entries)]

RECURSIVE end_entries(_, _, _)
end_entries(S, entries, status) ==
    IF entries = <<>> THEN S
    ELSE LET e == [Head(entries) EXCEPT !.status = status]
         IN  end_entries(IF e.index = None THEN S
                         ELSE replace_normalized_entry(S, Get(e.index), patch_entry(e)),
                         Tail(entries), status)

\* on_patch_apply_end that reports Success whatever the event says
on_patch_apply_end_success(S, ev) ==
    IF ~Has(S.state_patches, ev.call_id) THEN S
    ELSE end_entries([S EXCEPT !.state_patches = Del(@, ev.call_id)],
                     S.state_patches[ev.call_id], "Success")

on_patch_apply_end(S, ev) ==
    IF ~Has(S.state_patches, ev.call_id) THEN S
    ELSE end_entries([S EXCEPT !.state_patches = Del(@, ev.call_id)],
                     S.state_patches[ev.call_id],
                     IF ev.success THEN "Success" ELSE "Failed")

on_web_search_begin(S, ev) ==
    LET S0 == clear_streaming(S)
        w == WebSearchState(None, None, "Created")
    IN  add_normalized_entry(
            [S0 EXCEPT !.web_searches = Put(@, ev.call_id, [w EXCEPT !.index = Some(S0.idx)])],
            web_search_entry(w))

on_web_search_end(S, ev) ==
    LET S0 == clear_streaming(S)
    IN  IF ~Has(S0.web_searches, ev.call_id) THEN S0
        ELSE LET w == [S0.web_searches[ev.call_id]
                          EXCEPT !.status = "Success", !.query = Some(ev.text)]
                 S1 == [S0 EXCEPT !.web_searches = Del(@, ev.call_id)]
             IN  IF w.index = None THEN S1
                 ELSE replace_normalized_entry(S1, Get(w.index), web_search_entry(w))

on_view_image_tool_call(S, ev) ==
    LET relative_path == make_path_relative(ev.text)
    IN  add_normalized_entry(clear_streaming(S),
            ToolUseEntry(T("view_image"),
                         Action("FileRead", relative_path, None, <<>>, None),
                         "Success", Backticked(relative_path), NoMeta))

format_todo_status(status) ==
    CASE status = "Pending" -> "pending"
      [] status = "InProgress" -> "in_progress"
      [] status = "Completed" -> "completed"

\* PlanItemArg
PlanItem(step, status) == [step |-> step, status |-> status]

\* the todos travel in the changes field of the action, the operation in arg
on_plan_update(S, ev) ==
    LET todos == [k \in 1..Len(ev.plan) |->
                    [content |-> ev.plan[k].step,
                     status |-> format_todo_status(ev.plan[k].status)]]
        explanation == IF IsSome(ev.reason) /\ trim(Get(ev.reason)) # <<>>
                       THEN Some(trim(Get(ev.reason))) ELSE None
        content == IF IsSome(explanation) THEN Get(explanation)
                   ELSE IF todos = <<>> THEN T("Plan updated")
                   ELSE <<"Plan updated (", Len(todos), " steps)">>
    IN  add_normalized_entry(S,
            ToolUseEntry(T("plan"), Action("TodoManagement", T("update"), None, todos, None),
                         "Success", content, NoMeta))

on_error(S, ev) == add_normalized_entry(S, PlainEntry("ErrorMessage", ev.text, NoMeta))

on_token_count(S, ev) ==
    IF ev.has_info THEN [S EXCEPT !.token_usage_info = Some("info")] ELSE S

\* =========================================================================
\* Codex app-server client: approvals and the feedback queue
\* =========================================================================
\* Result<ApprovalStatus, ExecutorError> of an approval request
ApprovalOk(status) == [ok |-> TRUE, status |-> status]
ApprovalErr == [ok |-> FALSE, status |-> ApprovalStatus("Pending", None)]

\* AppServerClient::request_tool_approval; approvals tells whether a service
\* is attached, answer is what the service returns when asked
request_tool_approval(auto_approve, approvals, answer) ==
    IF auto_approve THEN ApprovalOk(ApprovalStatus("Approved", None))
    ELSE IF ~approvals THEN ApprovalErr
    ELSE answer

\* (ReviewDecision, Option<String>)
ReviewOutcome(decision, feedback) == [decision |-> decision, feedback |-> feedback]

\* variant of review_decision that passes the denial reason on as written
review_decision_untrimmed(auto_approve, status) ==
    IF auto_approve THEN ReviewOutcome("ApprovedForSession", None)
    ELSE CASE status.t = "Approved" -> ReviewOutcome("Approved", None)
           [] status.t = "Denied" ->
                IF IsSome(status.reason) THEN ReviewOutcome("Abort", status.reason)
                ELSE ReviewOutcome("Denied", None)
           [] status.t = "TimedOut" -> ReviewOutcome("Denied", None)
           [] status.t = "Pending" -> ReviewOutcome("Denied", None)

\* AppServerClient::review_decision
review_decision(auto_approve, status) ==
    IF auto_approve THEN ReviewOutcome("ApprovedForSession", None)
    ELSE CASE status.t = "Approved" -> ReviewOutcome("Approved", None)
           [] status.t = "Denied" ->
                LET feedback == IF IsSome(status.reason) /\ trim(Get(status.reason)) # <<>>
                                THEN Some(trim(Get(status.reason))) ELSE None
                IN  IF IsSome(feedback) THEN ReviewOutcome("Abort", feedback)
                    ELSE ReviewOutcome("Denied", None)
           [] status.t = "TimedOut" -> ReviewOutcome("Denied", None)
           [] status.t = "Pending" -> ReviewOutcome("Denied", None)

\* variant of enqueue_feedback that drops the message
enqueue_feedback_dropped(queue, message) == queue

\* AppServerClient::enqueue_feedback
enqueue_feedback(queue, message) ==
    IF trim(message) = <<>> THEN queue ELSE Append(queue, message)

\* variant of spawn_feedback_message that sends the feedback without prefix
spawn_feedback_message_bare(conversation_id, feedback) ==
    [conversation_id |-> conversation_id, text |-> feedback]

\* AppServerClient::spawn_feedback_message: the SendUserMessage request
spawn_feedback_message(conversation_id, feedback) ==
    [conversation_id |-> conversation_id, text |-> <<"User feedback: ">> \o feedback]

\* the requests flush_pending_feedback spawns for the drained messages
RECURSIVE feedback_requests(_, _)
feedback_requests(conversation_id, messages) ==
    IF messages = <<>> THEN <<>>
    ELSE (IF trim(Head(messages)) = <<>> THEN <<>>
          ELSE <<spawn_feedback_message(conversation_id, trim(Head(messages)))>>)
         \o feedback_requests(conversation_id, Tail(messages))

\* AppServerClient::flush_pending_feedback: the queue is drained first, then
\* the drained messages are sent if a conversation id is known
flush_pending_feedback(queue, conversation_id) ==
    [queue |-> <<>>,
     requests |-> IF queue = <<>> \/ conversation_id = None THEN <<>>
                  ELSE feedback_requests(Get(conversation_id), queue)]

\* what one call of on_request leaves behind: whether the approval request
\* returned Ok, which write failed (io), the approval status it worked with, the Approval line it logged, the response it sent to the peer, the
\* feedback it queued and its Result
RequestOutcome(kind, approved_ok, io, status, logged, response, feedback, result) ==
    [kind |-> kind, approved_ok |-> approved_ok, io |-> io, status |-> status,
     logged |-> logged, response |-> response, feedback |-> feedback, result |-> result]
NoRequest ==
    RequestOutcome("", TRUE, "ok", ApprovalStatus("Pending", None), None, None, None, "Ok")

\* variant of handle_server_request that gives up when the approval fails
handle_server_request_fatal(kind, tool_name, auto_approve, approvals, answer, io) ==
    LET approval == request_tool_approval(auto_approve, approvals, answer)
        status == approval.status
        logged == ApprovalResponseLine(tool_name, status)
        outcome == review_decision(auto_approve, status)
    IN  IF ~approval.ok
        THEN RequestOutcome(kind, approval.ok, io, status, None, None, None, "Err")
        ELSE IF io = "log_fails"
        THEN RequestOutcome(kind, approval.ok, io, status, None, None, None, "Err")
        ELSE IF io = "send_fails"
        THEN RequestOutcome(kind, approval.ok, io, status, Some(logged), None, None, "Err")
        ELSE RequestOutcome(kind, approval.ok, io, status, Some(logged),
                            Some(outcome.decision), outcome.feedback, "Ok")

\* AppServerClient::handle_server_request, both approval kinds; io tells
\* whether the write to the log or the write to the peer fails
handle_server_request(kind, tool_name, auto_approve, approvals, answer, io) ==
    LET approval == request_tool_approval(auto_approve, approvals, answer)
        status == IF approval.ok THEN approval.status
                  ELSE ApprovalStatus("Denied", Some(T("approval service error")))
        logged == ApprovalResponseLine(tool_name, status)
        outcome == review_decision(auto_approve, status)
    IN  IF io = "log_fails"
        THEN RequestOutcome(kind, approval.ok, io, status, None, None, None, "Err")
        ELSE IF io = "send_fails"
        THEN RequestOutcome(kind, approval.ok, io, status, Some(logged), None, None, "Err")
        ELSE RequestOutcome(kind, approval.ok, io, status, Some(logged),
                            Some(outcome.decision), outcome.feedback, "Ok")

VARIABLES
    agent,                  \* which normalizer the driver attached
    feed,                   \* the vocabulary of lines the agent writes in this run
    strategy,               \* HistoryStrategy of the Claude processor
    entry_index,            \* EntryIndexProvider: the next index
    patches,                \* message store: JsonPatch records, in order
    session_ids,            \* message store: SessionId records, in order
    session_id_extracted,   \* process_logs local
    model_name,             \* ClaudeLogProcessor.model_name
    tool_map,               \* ClaudeLogProcessor.tool_map
    streaming_messages,     \* ClaudeLogProcessor.streaming_messages
    streaming_message_id,   \* ClaudeLogProcessor.streaming_message_id
    first_sid,              \* history: session id of the first record carrying one
    answered,               \* history: last tool_result seen per registered tool id
    streamed,               \* history: blocks Added by deltas, per message id
    last_sid,               \* history: session id of the latest record carrying one
    last_orphan,            \* history: the line just read was a result nobody tracks
    last_stray              \* history: the line just read was not JSON

VARIABLES
    assistant,              \* LogState.assistant
    thinking,               \* LogState.thinking
    commands,               \* LogState.commands
    mcp_tools,              \* LogState.mcp_tools
    state_patches,          \* LogState.patches: call id -> entries of its PatchState
    web_searches,           \* LogState.web_searches
    token_usage_info        \* LogState.token_usage_info

VARIABLES
    auto_approve,           \* AppServerClient.auto_approve
    approvals,              \* AppServerClient.approvals is Some
    conversation_id,        \* AppServerClient.conversation_id
    pending_feedback,       \* AppServerClient.pending_feedback
    requests,               \* SendUserMessage requests handed to the peer, in order
    last_request,           \* what the latest on_request call did
    issued_by,              \* history: the callback that issued each request
    registrations,          \* history: how many register_session calls ran
    last_registration       \* the Result of the latest register_session call

VARIABLES
    stdout_text,            \* history: everything the child writes to stdout in this run
    unwritten,              \* the part of it the child has not written yet
    records,                \* message store: Stdout and Finished records, in order
    subscribed_at,          \* how many of them the store held when process_logs subscribed
    attached,               \* "no", or when normalize_logs ran: "live" or "late"
    cursor,                 \* how many records the stream has handed to the loop
    buffer,                 \* process_logs local
    done                    \* the loop has ended

streamVars == <<stdout_text, unwritten, records, subscribed_at, attached, cursor, buffer,
                done>>
clientVars == <<auto_approve, approvals, conversation_id, pending_feedback, requests,
                last_request, issued_by, registrations, last_registration>>
codexVars == <<assistant, thinking, commands, mcp_tools, state_patches, web_searches,
               token_usage_info>>
claudeVars == <<session_id_extracted, model_name, tool_map,
                streaming_messages, streaming_message_id,
                first_sid, answered, streamed, last_sid>>
storeVars == <<entry_index, patches, session_ids>>
runVars == <<agent, feed, strategy>>

\* =========================================================================
\* Inputs the model feeds to the Claude normalizer
\* =========================================================================
SessionIds == {"s1", "s2"}
SessionIdOpts == {None} \cup {Some(x) : x \in SessionIds}
ToolIds == {"t1", "t2"}
Sonnet == T("sonnet")

BashTool == ToolData("Bash", T("Bash"), <<"echo", " ", "hi">>, T("{command}"))
ReadTool == ToolData("Read", T("Read"), <<WorktreeTok, "a.rs">>, T("{file_path}"))
McpTool == ToolData("Unknown", <<"mcp", "__", "a", "__", "b">>, <<>>, T("{q}"))

\* (content, is_error) of the tool results fed in
ResultPayloads ==
    { <<StrValue(<<"hi", "\n">>), None>>,
      <<StrValue(<<"hi", "\n">>), Some(FALSE)>>,
      <<StrValue(<<"hi", "\n">>), Some(TRUE)>>,
      <<StrValue(AmpJson("out", "2")), Some(FALSE)>>,
      <<StrValue(<<"denied. ", USER_FEEDBACK_MARKER, "no", "\n">>), Some(TRUE)>>,
      <<StrValue(<<"denied. ", USER_FEEDBACK_MARKER, "no", "\n">>), None>>,
      <<ArrValue(<<T("1")>>), Some(FALSE)>> }

AssistantMsg(id, model, content) == Message(id, "assistant", model, content)
UserMsg(content) == Message(None, "user", None, content)
MessageStart(id, role, model) ==
    StreamEvent("message_start", Message(id, role, model, <<>>), 0,
                TextItem(<<>>), Delta("", <<>>))
ContentBlockStart(index, block) ==
    StreamEvent("content_block_start", NoMessage, index, block, Delta("", <<>>))
ContentBlockDelta(index, delta) ==
    StreamEvent("content_block_delta", NoMessage, index, TextItem(<<>>), delta)
PlainEvent(type) == StreamEvent(type, NoMessage, 0, TextItem(<<>>), Delta("", <<>>))

\* Feed "mixed": every record type, with and without a session id
MixedFeed ==
    {SystemRec(sid, Some(T("init")), None) : sid \in SessionIdOpts}
    \cup {ResultRec(sid, None) : sid \in SessionIdOpts}
    \cup { SystemRec(None, Some(T("init")), Some(T("ANTHROPIC_API_KEY"))),
           SystemRec(None, Some(T("status")), Some(T("none"))),
           SystemRec(None, None, None),
           AssistantRec(Some("s1"), AssistantMsg(None, None, <<TextItem(T("Hi"))>>)),
           AssistantRec(None, AssistantMsg(None, Some(Sonnet), <<TextItem(T("Hi"))>>)),
           UserRec(Some("s2"), UserMsg(<<TextItem(T("go"))>>)),
           ToolUseRec(Some("s1"), McpTool),
           ToolUseRec(None, BashTool),
           ToolResultRec(Some("s2"), Some(TRUE)),
           ResultRec(None, Some(TRUE)),
           StreamEventRec(Some("s1"), PlainEvent("message_stop")),
           StreamEventRec(None, PlainEvent("unknown")),
           UnknownRec }

\* Feed "tools": tool_use items and the tool results that answer them
ToolsFeed ==
    {AssistantRec(None, AssistantMsg(None, None, <<ToolUseItem("t1", td)>>)) :
        td \in {BashTool, ReadTool, McpTool}}
    \cup {UserRec(None, UserMsg(<<ToolResultItem(id, p[1], p[2])>>)) :
        id \in ToolIds, p \in ResultPayloads}
    \cup { AssistantRec(None, AssistantMsg(None, None, <<ToolUseItem("t2", BashTool)>>)),
           AssistantRec(None, AssistantMsg(None, None,
               <<TextItem(T("Hi")), ToolUseItem("t1", BashTool)>>)),
           AssistantRec(None, AssistantMsg(None, None,
               <<ThinkingItem(T("hm")), ToolResultItem("t1", StrValue(T("x")), None),
                 TextItem(T("Hi"))>>)),
           UserRec(None, UserMsg(<<TextItem(T("go"))>>)),
           UserRec(None, UserMsg(<<TextItem(T("go")),
               ToolResultItem("t1", StrValue(<<"hi", "\n">>), Some(FALSE))>>)),
           ToolResultRec(None, None) }

\* Feed "streaming": the stream events of partial messages
StreamingFeed ==
    {StreamEventRec(None, ev) : ev \in
        {ContentBlockDelta(0, d) :
                d \in {Delta("text_delta", T("He")), Delta("text_delta", T("llo")),
                       Delta("thinking_delta", T("hm")), Delta("unknown", <<>>)}}
        \cup { MessageStart(Some("m1"), "assistant", None),
               MessageStart(None, "assistant", None),
               MessageStart(Some("m1"), "user", None),
               ContentBlockStart(0, TextItem(<<>>)),
               ContentBlockStart(0, ThinkingItem(<<>>)),
               ContentBlockStart(1, TextItem(T(">"))),
               ContentBlockStart(1, ToolUseItem("t1", BashTool)),
               ContentBlockDelta(1, Delta("text_delta", T("He"))),
               PlainEvent("content_block_stop"),
               PlainEvent("message_delta"),
               PlainEvent("message_stop") }}
    \cup { UserRec(None, UserMsg(<<TextItem(T("go"))>>)) }

\* Feed "partial": streamed blocks and the complete records that deliver them
PartialFeed ==
    {StreamEventRec(None, ev) : ev \in
        { MessageStart(Some("m1"), "assistant", None),
          MessageStart(Some("m1"), "assistant", Some(Sonnet)),
          ContentBlockDelta(0, Delta("text_delta", T("He"))),
          ContentBlockDelta(0, Delta("text_delta", T("llo"))),
          ContentBlockDelta(1, Delta("thinking_delta", T("hm"))),
          PlainEvent("message_stop") }}
    \cup {AssistantRec(None, AssistantMsg(Some("m1"), None, c)) : c \in
            { <<TextItem(T("Hello"))>>, <<ThinkingItem(T("hm"))>>,
              <<ToolUseItem("t1", BashTool)>>,
              <<TextItem(T("Hello")), ThinkingItem(T("hm"))>> }}
    \cup { AssistantRec(None, AssistantMsg(None, None, <<TextItem(T("Hello"))>>)),
           AssistantRec(None, AssistantMsg(Some("m1"), Some(Sonnet),
                                           <<TextItem(T("Hello"))>>)),
           UserRec(None, UserMsg(
               <<ToolResultItem("t1", StrValue(<<"hi", "\n">>), Some(TRUE))>>)) }

\* Feed "erase": a user text that arrives while streamed blocks are open
EraseFeed ==
    {StreamEventRec(None, ev) : ev \in
        { MessageStart(Some("m1"), "assistant", None),
          ContentBlockDelta(1, Delta("thinking_delta", T("hm"))) }}
    \cup { UserRec(None, UserMsg(<<TextItem(T("go"))>>)) }

ClaudeFeeds == {"mixed", "tools", "streaming", "partial", "erase"}
ClaudeFeed(f) ==
    CASE f = "mixed" -> MixedFeed
      [] f = "tools" -> ToolsFeed
      [] f = "streaming" -> StreamingFeed
      [] f = "partial" -> PartialFeed
      [] f = "erase" -> EraseFeed
      [] OTHER -> {}

\* a complete stdout line that is not JSON
RawLines == {<<"Service", " ", "ready">>}

\* The raw stdout of the runs that go through the store: a record's JSON
\* text is two tokens, the opening brace and the rest, and a line ends with
\* the newline token
WireRecords ==
    [w \in {"system", "assistant"} |->
        IF w = "system"
        THEN SystemRec(Some("s1"), Some(T("init")), Some(T("ANTHROPIC_API_KEY")))
        ELSE AssistantRec(Some("s2"), AssistantMsg(None, Some(Sonnet), <<TextItem(T("Hi"))>>))]
Wire(w) == <<"{", w, "\n">>
ServiceStarting == "Service not running, starting service"
StdoutTexts ==
    { Wire("system") \o Wire("assistant"),
      <<" ", "ready", "\n">> \o Wire("assistant"),
      <<"\n", ServiceStarting, "\n">> \o Wire("system"),
      Wire("assistant") \o <<"{", "system">> }

\* =========================================================================
\* Inputs the model feeds to the Codex normalizer
\* =========================================================================
CallIds == {"c1", "c2"}
Gpt == T("gpt-5")
High == Some(T("high"))
Ls == <<T("ls"), T("-a")>>
FileA == <<WorktreeTok, "a.rs">>
FileB == <<WorktreeTok, "b.rs">>
ChangesA == <<ProtoChange(FileA, "Add", None)>>
ChangesAB == <<ProtoChange(FileA, "Update", None), ProtoChange(FileB, "Delete", None)>>
\* the same map as ChangesAB, iterated in the other order
ChangesBA == <<ProtoChange(FileB, "Delete", None), ProtoChange(FileA, "Update", None)>>
ChangesMove == <<ProtoChange(FileA, "Update", Some(FileB))>>
FsInvocation == McpInvocation(T("fs"), T("read"), Some(T("{}")))

CodexSessionFeed ==
    {SessionConfiguredLine("s1", Gpt, None), SessionConfiguredLine("s2", Gpt, High),
     OtherServerNotificationLine, TruncatedSessionLine("s1"),
     NewConversationLine(RolloutPath("s2"), Gpt, None),
     NewConversationLine(<<"tmp">>, Gpt, High), OtherResponseLine,
     EventLine(EvSessionConfigured("s1", Gpt, None)),
     EventLine(EvSessionConfigured("s2", Gpt, High)),
     LaunchErrorLine(T("spawn failed")),
     ApprovalResponseLine(T("codex.exec_command"), ApprovalStatus("Pending", None)),
     ApprovalResponseLine(T("codex.exec_command"), ApprovalStatus("Approved", None)),
     ApprovalResponseLine(T("codex.exec_command"), ApprovalStatus("Denied", None)),
     ApprovalResponseLine(T("codex.apply_patch"),
                          ApprovalStatus("Denied", Some(<<" ", "no">>))),
     ApprovalResponseLine(T("other"), ApprovalStatus("TimedOut", None)),
     OtherNotificationLine, BadParamsLine, JunkLine}

CodexTextFeed ==
    {EventLine(ev) : ev \in
        {EvText("AgentMessageDelta", T("He")), EvText("AgentMessageDelta", T("llo")),
         EvText("AgentReasoningDelta", T("hm")), EvText("AgentMessage", T("Hello")),
         EvText("AgentReasoning", T("hm")), EvPlain("AgentReasoningSectionBreak"),
         EvText("BackgroundEvent", T("bg")), EvText("StreamError", T("eof")),
         EvText("Error", T("boom")), EvTokenCount(TRUE), EvTokenCount(FALSE),
         EvPlain("TaskComplete"), EvViewImageToolCall(<<WorktreeTok, "a.png">>),
         EvPlanUpdate(<<>>, None), EvPlanUpdate(<<PlanItem(T("do"), "Pending")>>, None),
         EvPlanUpdate(<<PlanItem(T("do"), "Completed")>>, Some(<<" ", "why">>))}}

CodexExecFeed ==
    {EventLine(ev) : ev \in
        {EvExecApprovalRequest("c1", Ls, None),
         EvExecApprovalRequest("c1", <<>>, Some(T("because"))),
         EvExecApprovalRequest("c2", <<>>, None),
         EvExecCommandBegin("c1", Ls), EvExecCommandBegin("c2", <<>>),
         EvExecCommandBegin("c2", <<T("pwd")>>),
         EvExecCommandOutputDelta("c1", "Stdout", T("o")),
         EvExecCommandOutputDelta("c1", "Stderr", T("e")),
         EvExecCommandOutputDelta("c1", "Stdout", <<>>),
         EvExecCommandOutputDelta("c2", "Stdout", T("o")),
         EvExecCommandEnd("c1", 0, T("out")), EvExecCommandEnd("c1", 1, T("oops")),
         EvExecCommandEnd("c2", 0, T("out")),
         EvText("AgentMessageDelta", T("He"))}}

CodexToolFeed ==
    {EventLine(ev) : ev \in
        {EvMcpToolCallBegin("c1", FsInvocation),
         EvMcpToolCallEnd("c1", McpOk(None, <<TextBlock(T("a")), TextBlock(T("b"))>>, None)),
         EvMcpToolCallEnd("c1", McpOk(Some(TRUE), <<ImageBlock>>, None)),
         EvMcpToolCallEnd("c1", McpOk(Some(FALSE), <<ImageBlock>>,
                                      Some(JsonValue("object", T("{}"))))),
         EvMcpToolCallEnd("c1", McpErr(T("timeout"))),
         EvMcpToolCallEnd("c2", McpErr(T("timeout"))),
         EvWebSearchBegin("c1"), EvWebSearchEnd("c1", T("rust")),
         EvWebSearchEnd("c2", T("rust")),
         EvText("AgentReasoningDelta", T("hm"))}}

CodexPatchFeed ==
    {EventLine(ev) : ev \in
        {EvApplyPatchApprovalRequest("c1", ChangesA),
         EvApplyPatchApprovalRequest("c1", ChangesAB),
         EvPatchApplyBegin("c1", ChangesA), EvPatchApplyBegin("c1", ChangesAB),
         EvPatchApplyBegin("c1", ChangesBA), EvPatchApplyBegin("c1", ChangesMove),
         EvPatchApplyBegin("c2", ChangesA),
         EvPatchApplyEnd("c1", TRUE), EvPatchApplyEnd("c1", FALSE),
         EvPatchApplyEnd("c2", TRUE)}}

CodexFeeds == {"session", "text", "exec", "tool", "patch"}
CodexFeed(f) ==
    CASE f = "session" -> CodexSessionFeed
      [] f = "text" -> CodexTextFeed
      [] f = "exec" -> CodexExecFeed
      [] f = "tool" -> CodexToolFeed
      [] f = "patch" -> CodexPatchFeed
      [] OTHER -> {}

\* =========================================================================
\* Inputs the model feeds to the Codex app-server client
\* =========================================================================
ConversationIds == {"v1", "v2"}
\* what the approval service may answer
ServiceAnswers ==
    {ApprovalOk(st) : st \in
        {ApprovalStatus("Approved", None), ApprovalStatus("Pending", None),
         ApprovalStatus("TimedOut", None), ApprovalStatus("Denied", None),
         ApprovalStatus("Denied", Some(<<" ", "no", " ">>)),
         ApprovalStatus("Denied", Some(<<" ">>))}}
    \cup {ApprovalErr}
\* one approval request as the client meets it: its kind, what the approval
\* service answers and whether a write fails while it is handled
ApprovalRequest(kind, answer, io) == [kind |-> kind, answer |-> answer, io |-> io]
DeniedNo == ApprovalOk(ApprovalStatus("Denied", Some(<<" ", "no", " ">>)))
\* Feed "decisions": every answer of the service, and failing writes
DecisionsFeed ==
    {ApprovalRequest(kind, answer, "ok") :
        kind \in {"ApplyPatchApproval", "ExecCommandApproval"}, answer \in ServiceAnswers}
    \cup { ApprovalRequest("ApplyPatchApproval", DeniedNo, "log_fails"),
           ApprovalRequest("ApplyPatchApproval", ApprovalErr, "send_fails"),
           ApprovalRequest("ExecCommandApproval", ApprovalErr, "log_fails"),
           ApprovalRequest("ExecCommandApproval", DeniedNo, "send_fails") }
\* Feed "feedback": denials with a reason, around registrations and aborts
FeedbackFeed ==
    { ApprovalRequest("ExecCommandApproval", DeniedNo, "ok"),
      ApprovalRequest("ExecCommandApproval", ApprovalErr, "ok"),
      ApprovalRequest("ApplyPatchApproval", DeniedNo, "ok") }
ClientFeeds == {"decisions", "feedback"}
ClientFeed(f) ==
    CASE f = "decisions" -> DecisionsFeed
      [] f = "feedback" -> FeedbackFeed
      [] OTHER -> {}
NotificationMethods ==
    {<<"codex/event", "/", "turn_aborted">>, <<"codex/event", "/", "task_complete">>,
     <<"sessionConfigured">>}

\* =========================================================================
\* Executor driver: the Claude hook settings and the Copilot session marker
\* =========================================================================
\* utils::approvals::APPROVAL_TIMEOUT_SECONDS
APPROVAL_TIMEOUT_SECONDS == 300
\* the port get_backend_port may answer with
BackendPort == 3001

\* variant of settings_json whose hook timeout ignores the request buffer
settings_json_unbuffered(plan, backend_port) ==
    IF backend_port = None THEN None
    ELSE LET backend_timeout == APPROVAL_TIMEOUT_SECONDS + 5
         IN  Some([matcher |-> IF plan THEN "^ExitPlanMode$"
                               ELSE "^(?!(Glob|Grep|NotebookRead|Read|Task|TodoWrite)$).*",
                   type |-> "command",
                   timeout_seconds |-> backend_timeout,
                   poll_interval |-> 5,
                   backend_port |-> Get(backend_port),
                   feedback_marker |-> USER_FEEDBACK_MARKER,
                   timeout |-> APPROVAL_TIMEOUT_SECONDS + 10])

\* settings_json: the PreToolUse hook of the settings document, or None when
\* get_backend_port fails
settings_json(plan, backend_port) ==
    IF backend_port = None THEN None
    ELSE LET backend_timeout == APPROVAL_TIMEOUT_SECONDS + 5
         IN  Some([matcher |-> IF plan THEN "^ExitPlanMode$"
                               ELSE "^(?!(Glob|Grep|NotebookRead|Read|Task|TodoWrite)$).*",
                   type |-> "command",
                   timeout_seconds |-> backend_timeout,
                   poll_interval |-> 5,
                   backend_port |-> Get(backend_port),
                   feedback_marker |-> USER_FEEDBACK_MARKER,
                   timeout |-> backend_timeout + 10])

\* Copilot::SESSION_PREFIX
SESSION_PREFIX == "[copilot-session] "

\* str::strip_prefix(SESSION_PREFIX)
strip_prefix(line) ==
    IF Len(line) > 0 /\ Head(line) = SESSION_PREFIX THEN Some(Tail(line)) ELSE None

\* send_session_id: the line appended to the combined stdout
session_line(session_id) == <<SESSION_PREFIX>> \o session_id \o <<"\n">>

\* MsgStore::stdout_lines_stream: the newline-terminated lines of the
\* combined stdout, without their newline
RECURSIVE stdout_lines_stream(_)
stdout_lines_stream(text) ==
    IF \A k \in 1..Len(text) : text[k] # "\n" THEN <<>>
    ELSE LET n == CHOOSE k \in 1..Len(text) :
                      text[k] = "\n" /\ \A j \in 1..(k - 1) : text[j] # "\n"
         IN  <<SubSeq(text, 1, n - 1)>> \o stdout_lines_stream(SubSeq(text, n + 1, Len(text)))

\* strip_ansi_escapes::strip_str
AnsiEscapes == {"ESC[1m", "ESC[0m"}
strip_str(line) == SelectSeq(line, LAMBDA tok : tok \notin AnsiEscapes)

\* PlainTextLogProcessor::process as create_simple_stdout_normalizer
\* configures it: one AssistantMessage per complete line
plain_text_process(idx, chunk) ==
    <<AddPatch(idx, PlainEntry("AssistantMessage", strip_str(chunk), NoMeta))>>

\* variant of copilot_line that treats the marker line as text
copilot_line_as_text(idx, line) ==
    [sids |-> <<>>, handed |-> <<line \o <<"\n">>>>,
     out |-> plain_text_process(idx, line \o <<"\n">>)]

\* what the loop of Copilot::normalize_logs does with one line
copilot_line(idx, line) ==
    IF IsSome(strip_prefix(line))
    THEN [sids |-> <<trim(Get(strip_prefix(line)))>>, handed |-> <<>>, out |-> <<>>]
    ELSE [sids |-> <<>>, handed |-> <<line \o <<"\n">>>>,
          out |-> plain_text_process(idx, line \o <<"\n">>)]

\* ---- inputs of the driver ------------------------------------------------
SessionUuid == <<"6f1d", "-", "a2">>
\* what the Copilot child writes: plain text, coloured text, text that
\* mentions the marker, and a marker line of its own
CopilotOutputs ==
    {<<"Working", "\n", "ESC[1m", "done", "ESC[0m", "\n">>,
     <<" ", SESSION_PREFIX, "x", "\n", "ok", "\n">>,
     <<SESSION_PREFIX, " ", "own", " ", "\n", "ok", "\n">>,
     <<"a", "\n", "b", "\n", "c">>}
\* what the child writes to stderr while the stdout normalizer runs
StderrLines == {T("warn: slow"), T("trace")}
\* the stdout lines of the runs with a stderr normalizer at work
SharedFeed == {<<"Service", " ", "ready">>, T("done")}
DriverFeeds == {"hook", "copilot", "shared"}

VARIABLES
    command_built,          \* build_command_builder has run
    hook_settings,          \* the settings document passed with --settings, if any
    child_out,              \* what the Copilot child has still to write
    combined_stdout,        \* the combined stdout of the Copilot run
    watch,                  \* send_session_id: "watching", "found" or "gave_up"
    appended,               \* history: marker lines the driver appended
    line_cursor,            \* lines the Copilot normalizer has taken
    handed,                 \* history: chunks handed to the plain-text processor
    stdout_pending          \* the Add the stdout task has built and not pushed yet

hookVars == <<command_built, hook_settings>>
copilotVars == <<child_out, combined_stdout, watch, appended, line_cursor, handed>>
driverVars == <<hookVars, copilotVars, stdout_pending>>

\* =========================================================================
\* Codex app-server client: the tasks that share the feedback queue
\* =========================================================================
\* Most approval requests the server sends in a run of the tasks.
MaxServerRequests == 2
\* the JSON-RPC ids of the server's requests, in the order it sends them
ServerRequestIds == [i \in 1..MaxServerRequests |-> ToString(i)]
\* what the approval service answers to the request with this id: the
\* user's reason names the request it denies
PeerAnswers(id) ==
    {ApprovalOk(ApprovalStatus("Approved", None)),
     ApprovalOk(ApprovalStatus("Denied", None)),
     ApprovalOk(ApprovalStatus("Denied", Some(<<" ", "no to ", id>>)))}
ApprovalToolName(kind) ==
    IF kind = "ApplyPatchApproval" THEN T("codex.apply_patch") ELSE T("codex.exec_command")

\* variant of handler_effects that answers the server before it writes the log
handler_effects_respond_first(id, R) ==
    <<[t |-> "status", id |-> id]>>
    \o (IF IsSome(R.response) THEN <<[t |-> "response", id |-> id]>> ELSE <<>>)
    \o (IF IsSome(R.logged) THEN <<[t |-> "log", id |-> id]>> ELSE <<>>)

\* handle_server_request up to send_server_response: what the handler has
\* done, in the order of its statements, when it gets to enqueue_feedback
handler_effects(id, R) ==
    <<[t |-> "status", id |-> id]>>
    \o (IF IsSome(R.logged) THEN <<[t |-> "log", id |-> id]>> ELSE <<>>)
    \o (IF IsSome(R.response) THEN <<[t |-> "response", id |-> id]>> ELSE <<>>)

\* variant of drain that reads the queue and leaves it as it is
drain_copy(queue) == [queue |-> queue, messages |-> queue]

\* flush_pending_feedback: guard.drain(..).collect() under the queue mutex
drain(queue) == [queue |-> <<>>, messages |-> queue]

\* a task of the client that is not inside a call
Idle == [pc |-> "idle", messages |-> <<>>]
NotHandled == [id |-> "", effects |-> <<>>, feedback |-> None, io |-> "ok"]
Range(f) == {f[k] : k \in DOMAIN f}

VARIABLES
    peer_task,              \* the JSON-RPC peer task: where it is in a callback, and its locals
    driver_task,            \* the task calling register_session: the same
    handled,                \* history: what the latest handle_server_request call has done
    served,                 \* server requests the peer task has taken
    aborts_owed,            \* Abort responses whose turn_aborted has not arrived yet
    enqueued,               \* history: the messages handed to enqueue_feedback, in order
    wire                    \* the spawned requests written to the peer, in order

peerVars == <<peer_task, driver_task, handled, served, aborts_owed, enqueued, wire>>

\* =========================================================================
\* The run
\* =========================================================================
vars == <<agent, feed, strategy, entry_index, patches, session_ids,
          session_id_extracted, model_name, tool_map, streaming_messages,
          streaming_message_id, first_sid, answered, streamed,
          last_sid, last_orphan, last_stray, assistant, thinking, commands, mcp_tools, state_patches, web_searches,
          token_usage_info, auto_approve, approvals, conversation_id, pending_feedback,
          requests, last_request, issued_by, registrations, last_registration,
          stdout_text, unwritten, records, subscribed_at, attached, cursor, buffer, done,
          command_built, hook_settings, child_out, combined_stdout, watch, appended,
          line_cursor, handed, stdout_pending,
          peer_task, driver_task, handled, served, aborts_owed, enqueued, wire>>

Init ==
    /\ agent \in {"claude", "codex", "client", "stream", "driver", "peer"}
    /\ feed \in CASE agent = "claude" -> ClaudeFeeds
                 [] agent = "codex" -> CodexFeeds
                 [] agent = "client" -> ClientFeeds
                 [] agent = "driver" -> DriverFeeds
                 [] agent = "peer" -> {"approvals"}
                 [] OTHER -> {"stdout"}
    /\ command_built = FALSE
    /\ hook_settings = None
    /\ child_out \in IF feed = "copilot" THEN CopilotOutputs ELSE {<<>>}
    /\ combined_stdout = <<>>
    /\ watch = "watching"
    /\ appended = 0
    /\ line_cursor = 0
    /\ handed = <<>>
    /\ stdout_pending = <<>>
    /\ stdout_text \in IF agent = "stream" THEN StdoutTexts ELSE {<<>>}
    /\ unwritten = stdout_text
    /\ records = <<>>
    /\ subscribed_at = 0
    /\ attached = "no"
    /\ cursor = 0
    /\ buffer = <<>>
    /\ done = FALSE
    /\ auto_approve \in IF agent = "client" THEN BOOLEAN ELSE {FALSE}
    /\ approvals \in IF agent = "client" THEN BOOLEAN ELSE {agent = "peer"}
    /\ peer_task = Idle
    /\ driver_task = Idle
    /\ handled = NotHandled
    /\ served = 0
    /\ aborts_owed = 0
    /\ enqueued = <<>>
    /\ wire = <<>>
    /\ conversation_id = None
    /\ pending_feedback = <<>>
    /\ requests = <<>>
    /\ last_request = NoRequest
    /\ issued_by = <<>>
    /\ registrations = 0
    /\ last_registration = ""
    /\ strategy \in IF agent = "claude" THEN {"Default", "AmpResume"} ELSE {"Default"}
    /\ entry_index = 0
    /\ patches = <<>>
    /\ session_ids = <<>>
    /\ session_id_extracted = FALSE
    /\ model_name = None
    /\ tool_map = EmptyMap
    /\ streaming_messages = EmptyMap
    /\ streaming_message_id = None
    /\ first_sid = None
    /\ answered = EmptyMap
    /\ streamed = EmptyMap
    /\ last_sid = None
    /\ last_orphan = FALSE
    /\ last_stray = FALSE
    /\ assistant = None
    /\ thinking = None
    /\ commands = EmptyMap
    /\ mcp_tools = EmptyMap
    /\ state_patches = EmptyMap
    /\ web_searches = EmptyMap
    /\ token_usage_info = None

\* the normalizer takes the next line while the explored stream is short
CanRead ==
    /\ Len(patches) < (CASE feed = "patch" -> MaxPatchRun
                          [] feed = "erase" -> MaxEraseRun
                          [] OTHER -> MaxPatches)
    /\ Len(session_ids) < MaxSessionPushes

\* the processor as the next record finds it
CurP ==
    [idx |-> entry_index, out |-> <<>>, model_name |-> model_name,
     tool_map |-> tool_map, sm |-> streaming_messages,
     smid |-> streaming_message_id, answered |-> answered, streamed |-> streamed]

\* variant of session_id_to_push that forgets the session_id_extracted flag
session_id_to_push_unguarded(extracted, claude_json) ==
    extract_session_id(claude_json)

\* process_logs: the session id the loop pushes for this record, if any
session_id_to_push(extracted, claude_json) ==
    IF ~extracted THEN extract_session_id(claude_json) ELSE None

\* -------------------------------------------------------------------------
\* process_logs over the records of the store: the line buffer
\* -------------------------------------------------------------------------
\* buffer.split_inclusive('\n').filter(|l| l.ends_with('\n'))
RECURSIVE complete_lines(_)
complete_lines(buf) ==
    IF \A i \in 1..Len(buf) : buf[i] # "\n" THEN <<>>
    ELSE LET i == CHOOSE j \in 1..Len(buf) :
                      buf[j] = "\n" /\ \A k \in 1..(j - 1) : buf[k] # "\n"
         IN  <<SubSeq(buf, 1, i)>> \o complete_lines(SubSeq(buf, i + 1, Len(buf)))

\* partial_line that keeps the whole buffer
partial_line_whole(buf) == buf

\* buffer.rsplit('\n').next().unwrap_or("")
partial_line(buf) ==
    IF \A i \in 1..Len(buf) : buf[i] # "\n" THEN buf
    ELSE LET i == CHOOSE j \in 1..Len(buf) :
                      buf[j] = "\n" /\ \A k \in (j + 1)..Len(buf) : buf[k] # "\n"
         IN  SubSeq(buf, i + 1, Len(buf))

\* the claude-code-router service messages the loop filters out
is_service_message(trimmed) ==
    \/ Head(trimmed) = ServiceStarting
    \/ \E i \in 1..Len(trimmed) :
          trimmed[i] = "claude code router service has been successfully stopped"

\* serde_json::from_str::<ClaudeJson>(trimmed)
from_str(trimmed) ==
    IF Len(trimmed) = 2 /\ trimmed[1] = "{" /\ trimmed[2] \in DOMAIN WireRecords
    THEN Some(WireRecords[trimmed[2]])
    ELSE None

\* St is the loop state while a chunk is handled: the processor P, the
\* session_id_extracted flag and the session ids pushed
LineState(P, extracted, sids) == [P |-> P, extracted |-> extracted, sids |-> sids]

\* the body of the loop over the complete lines
process_line(St, strat, line) ==
    LET trimmed == trim(line)
    IN  IF trimmed = <<>> THEN St
        ELSE IF is_service_message(trimmed) THEN St
        ELSE LET parsed == from_str(trimmed)
             IN  IF IsSome(parsed)
                 THEN LET push == session_id_to_push(St.extracted, Get(parsed))
                      IN  LineState(normalize_entries(St.P, strat, Get(parsed)),
                                    St.extracted \/ IsSome(push), St.sids \o push)
                 ELSE [St EXCEPT !.P = EmitAdd(@, PlainEntry("SystemMessage", trimmed, NoMeta))]

RECURSIVE process_lines(_, _, _)
process_lines(St, strat, lines) ==
    IF lines = <<>> THEN St
    ELSE process_lines(process_line(St, strat, Head(lines)), strat, Tail(lines))

\* process_chunk that takes every piece of the buffer for a line
process_chunk_unfiltered(St, strat, buf, chunk) ==
    [St |-> process_lines(St, strat, SplitOn(buf \o chunk, "\n")),
     buffer |-> partial_line(buf \o chunk)]

\* one turn of the while loop for a Stdout chunk
process_chunk(St, strat, buf, chunk) ==
    [St |-> process_lines(St, strat, complete_lines(buf \o chunk)),
     buffer |-> partial_line(buf \o chunk)]

\* after the loop: what is left in the buffer becomes a SystemMessage
flush_buffer(St, buf) ==
    IF trim(buf) # <<>>
    THEN [St EXCEPT !.P = EmitAdd(@, PlainEntry("SystemMessage", trim(buf), NoMeta))]
    ELSE St

\* MsgStore records the normalizer looks at
StdoutMsg(chunk) == [t |-> "Stdout", chunk |-> chunk]
FinishedMsg == [t |-> "Finished", chunk |-> <<>>]

\* MsgStore::history_plus_stream: the records pushed before the
\* subscription followed by the records pushed after it
history_plus_stream(pushed, at) ==
    SubSeq(pushed, 1, at) \o SubSeq(pushed, at + 1, Len(pushed))

\* a user record that carries nothing but tool results no ToolUse registered
ClaudeOrphan(claude_json) ==
    /\ claude_json.type = "user"
    /\ claude_json.message.content # <<>>
    /\ \A k \in 1..Len(claude_json.message.content) :
          /\ claude_json.message.content[k].type = "tool_result"
          /\ ~Has(tool_map, claude_json.message.content[k].id)

\* a Codex result event whose call id no Begin registered
CodexOrphan(line) ==
    /\ line.shape = "JSONRPCNotification"
    /\ line.params_ok
    /\ Head(line.method) = "codex/event"
    /\ \/ line.event.type \in {"ExecCommandOutputDelta", "ExecCommandEnd"}
          /\ ~Has(commands, line.event.call_id)
       \/ line.event.type = "McpToolCallEnd" /\ ~Has(mcp_tools, line.event.call_id)
       \/ line.event.type = "PatchApplyEnd" /\ ~Has(state_patches, line.event.call_id)
       \/ line.event.type = "WebSearchEnd" /\ ~Has(web_searches, line.event.call_id)

\* process_logs: one complete line that parses as ClaudeJson
ClaudeLine(claude_json) ==
    LET sid == extract_session_id(claude_json)
        push == session_id_to_push(session_id_extracted, claude_json)
        R == normalize_entries(CurP, strategy, claude_json)
    IN  /\ agent = "claude"
        /\ CanRead
        /\ session_ids' = session_ids \o push
        /\ session_id_extracted' = (session_id_extracted \/ IsSome(push))
        /\ first_sid' = IF first_sid = None THEN sid ELSE first_sid
        /\ last_sid' = IF IsSome(sid) THEN sid ELSE last_sid
        /\ last_orphan' = ClaudeOrphan(claude_json)
        /\ last_stray' = FALSE
        /\ patches' = patches \o R.out
        /\ entry_index' = R.idx
        /\ model_name' = R.model_name
        /\ tool_map' = R.tool_map
        /\ streaming_messages' = R.sm
        /\ streaming_message_id' = R.smid
        /\ answered' = R.answered
        /\ streamed' = R.streamed
        /\ UNCHANGED <<runVars, codexVars, clientVars, streamVars, driverVars, peerVars>>

ClaudeRecs(type) == {r \in ClaudeFeed(feed) : r.type = type}

ClaudeSystem == \E r \in ClaudeRecs("system") : ClaudeLine(r)
ClaudeAssistant == \E r \in ClaudeRecs("assistant") : ClaudeLine(r)
ClaudeUser == \E r \in ClaudeRecs("user") : ClaudeLine(r)
ClaudeToolUse == \E r \in ClaudeRecs("tool_use") : ClaudeLine(r)
ClaudeToolResult == \E r \in ClaudeRecs("tool_result") : ClaudeLine(r)
ClaudeStreamEvent == \E r \in ClaudeRecs("stream_event") : ClaudeLine(r)
ClaudeResult == \E r \in ClaudeRecs("result") : ClaudeLine(r)
ClaudeUnknown == \E r \in ClaudeRecs("unknown") : ClaudeLine(r)

\* process_logs: a complete line that is not JSON becomes a SystemMessage
ClaudeRawLine ==
    \E line \in RawLines :
        /\ agent = "claude"
        /\ feed = "mixed"
        /\ CanRead
        /\ patches' = Append(patches, AddPatch(entry_index,
                                 PlainEntry("SystemMessage", trim(line), NoMeta)))
        /\ entry_index' = entry_index + 1
        /\ last_orphan' = FALSE
        /\ last_stray' = TRUE
        /\ UNCHANGED <<runVars, session_ids, claudeVars, codexVars, clientVars, streamVars, driverVars, peerVars>>

ClaudeNext ==
    \/ ClaudeSystem
    \/ ClaudeAssistant
    \/ ClaudeUser
    \/ ClaudeToolUse
    \/ ClaudeToolResult
    \/ ClaudeStreamEvent
    \/ ClaudeResult
    \/ ClaudeUnknown
    \/ ClaudeRawLine

\* the loop state as the next line finds it
CurS ==
    [idx |-> entry_index, out |-> <<>>, sids |-> <<>>, assistant |-> assistant,
     thinking |-> thinking, commands |-> commands, mcp_tools |-> mcp_tools,
     state_patches |-> state_patches, web_searches |-> web_searches,
     token_usage_info |-> token_usage_info]

\* normalize_logs: one iteration of the loop over stdout lines, R being the
\* loop state the branch taken for the line leaves
CodexLine(line, R) ==
        /\ agent = "codex"
        /\ CanRead
        /\ last_orphan' = CodexOrphan(line)
        /\ last_stray' = (line.shape = "Junk")
        /\ session_ids' = session_ids \o R.sids
        /\ patches' = patches \o R.out
        /\ entry_index' = R.idx
        /\ assistant' = R.assistant
        /\ thinking' = R.thinking
        /\ commands' = R.commands
        /\ mcp_tools' = R.mcp_tools
        /\ state_patches' = R.state_patches
        /\ web_searches' = R.web_searches
        /\ token_usage_info' = R.token_usage_info
        /\ UNCHANGED <<runVars, claudeVars, clientVars, streamVars, driverVars, peerVars>>

CodexLines(shape) == {l \in CodexFeed(feed) : l.shape = shape}
CodexEvents(type) ==
    {l \in CodexFeed(feed) :
        l.shape = "JSONRPCNotification" /\ l.params_ok
        /\ Head(l.method) = "codex/event" /\ l.event.type = type}

CodexLaunchError == \E l \in CodexLines("Error") :
        CodexLine(l, add_normalized_entry(CurS, PlainEntry("ErrorMessage", l.error, NoMeta)))
CodexApproval == \E l \in CodexLines("Approval") :
        CodexLine(l, approval_line(CurS, l))
CodexResponse == \E l \in CodexLines("JSONRPCResponse") :
        CodexLine(l, handle_jsonrpc_response(CurS, l))
CodexServerNotification == \E l \in CodexLines("ServerNotification") :
        CodexLine(l, server_notification(CurS, l))
CodexTruncatedSession == \E l \in CodexLines("Truncated") :
        CodexLine(l, push_session_id(CurS, l.session_id))
CodexSkippedLine ==
    \E l \in CodexLines("Junk")
             \cup {x \in CodexLines("JSONRPCNotification") :
                      ~x.params_ok \/ Head(x.method) # "codex/event"} :
        CodexLine(l, CurS)
CodexSessionConfigured == \E l \in CodexEvents("SessionConfigured") :
        CodexLine(l, on_session_configured(CurS, l.event))
CodexAgentMessageDelta == \E l \in CodexEvents("AgentMessageDelta") :
        CodexLine(l, on_agent_message_delta(CurS, l.event))
CodexAgentReasoningDelta == \E l \in CodexEvents("AgentReasoningDelta") :
        CodexLine(l, on_agent_reasoning_delta(CurS, l.event))
CodexAgentMessage == \E l \in CodexEvents("AgentMessage") :
        CodexLine(l, on_agent_message(CurS, l.event))
CodexAgentReasoning == \E l \in CodexEvents("AgentReasoning") :
        CodexLine(l, on_agent_reasoning(CurS, l.event))
CodexSectionBreak == \E l \in CodexEvents("AgentReasoningSectionBreak") :
        CodexLine(l, clear_streaming(CurS))
CodexExecApprovalRequest == \E l \in CodexEvents("ExecApprovalRequest") :
        CodexLine(l, on_exec_approval_request(CurS, l.event))
CodexApplyPatchApprovalRequest ==
    \E l \in CodexEvents("ApplyPatchApprovalRequest") :
        CodexLine(l, on_apply_patch_approval_request(CurS, l.event))
CodexExecCommandBegin == \E l \in CodexEvents("ExecCommandBegin") :
        CodexLine(l, on_exec_command_begin(CurS, l.event))
CodexExecCommandOutputDelta == \E l \in CodexEvents("ExecCommandOutputDelta") :
        CodexLine(l, on_exec_command_output_delta(CurS, l.event))
CodexExecCommandEnd == \E l \in CodexEvents("ExecCommandEnd") :
        CodexLine(l, on_exec_command_end(CurS, l.event))
CodexBackgroundEvent == \E l \in CodexEvents("BackgroundEvent") :
        CodexLine(l, on_background_event(CurS, l.event))
CodexStreamError == \E l \in CodexEvents("StreamError") :
        CodexLine(l, on_stream_error(CurS, l.event))
CodexMcpToolCallBegin == \E l \in CodexEvents("McpToolCallBegin") :
        CodexLine(l, on_mcp_tool_call_begin(CurS, l.event))
CodexMcpToolCallEnd == \E l \in CodexEvents("McpToolCallEnd") :
        CodexLine(l, on_mcp_tool_call_end(CurS, l.event))
CodexPatchApplyBegin == \E l \in CodexEvents("PatchApplyBegin") :
        CodexLine(l, on_patch_apply_begin(CurS, l.event))
CodexPatchApplyEnd == \E l \in CodexEvents("PatchApplyEnd") :
        CodexLine(l, on_patch_apply_end(CurS, l.event))
CodexWebSearchBegin == \E l \in CodexEvents("WebSearchBegin") :
        CodexLine(l, on_web_search_begin(CurS, l.event))
CodexWebSearchEnd == \E l \in CodexEvents("WebSearchEnd") :
        CodexLine(l, on_web_search_end(CurS, l.event))
CodexViewImageToolCall == \E l \in CodexEvents("ViewImageToolCall") :
        CodexLine(l, on_view_image_tool_call(CurS, l.event))
CodexPlanUpdate == \E l \in CodexEvents("PlanUpdate") :
        CodexLine(l, on_plan_update(CurS, l.event))
CodexError == \E l \in CodexEvents("Error") :
        CodexLine(l, on_error(CurS, l.event))
CodexTokenCount == \E l \in CodexEvents("TokenCount") :
        CodexLine(l, on_token_count(CurS, l.event))
CodexOtherEvent == \E l \in CodexEvents("TaskComplete") :
        CodexLine(l, CurS)

CodexNext ==
    \/ CodexLaunchError
    \/ CodexApproval
    \/ CodexResponse
    \/ CodexServerNotification
    \/ CodexTruncatedSession
    \/ CodexSkippedLine
    \/ CodexSessionConfigured
    \/ CodexAgentMessageDelta
    \/ CodexAgentReasoningDelta
    \/ CodexAgentMessage
    \/ CodexAgentReasoning
    \/ CodexSectionBreak
    \/ CodexExecApprovalRequest
    \/ CodexApplyPatchApprovalRequest
    \/ CodexExecCommandBegin
    \/ CodexExecCommandOutputDelta
    \/ CodexExecCommandEnd
    \/ CodexBackgroundEvent
    \/ CodexStreamError
    \/ CodexMcpToolCallBegin
    \/ CodexMcpToolCallEnd
    \/ CodexPatchApplyBegin
    \/ CodexPatchApplyEnd
    \/ CodexWebSearchBegin
    \/ CodexWebSearchEnd
    \/ CodexViewImageToolCall
    \/ CodexPlanUpdate
    \/ CodexError
    \/ CodexTokenCount
    \/ CodexOtherEvent

\* =========================================================================
\* Callbacks of the Codex app-server client
\* =========================================================================
\* the client takes the next callback while the explored history is short
ClientCanRun ==
    /\ agent = "client"
    /\ Len(pending_feedback) < MaxPending
    /\ Len(requests) < MaxRequests

\* on_request with an approval request of the given kind
ClientApproval(kind, tool_name) ==
    \E q \in {x \in ClientFeed(feed) : x.kind = kind} :
        LET R == handle_server_request(kind, tool_name, auto_approve, approvals, q.answer,
                                       q.io)
        IN  /\ ClientCanRun
            /\ last_request' = R
            /\ pending_feedback' = IF IsSome(R.feedback)
                                   THEN enqueue_feedback(pending_feedback, Get(R.feedback))
                                   ELSE pending_feedback
            /\ UNCHANGED <<auto_approve, approvals, conversation_id, requests, issued_by,
                           registrations, last_registration>>
            /\ UNCHANGED <<runVars, storeVars, claudeVars, codexVars, last_orphan, last_stray, streamVars, driverVars, peerVars>>

ClientApplyPatchApproval == ClientApproval("ApplyPatchApproval", T("codex.apply_patch"))
ClientExecCommandApproval == ClientApproval("ExecCommandApproval", T("codex.exec_command"))

\* on_request with a request the client does not handle: a null response
ClientUnhandledRequest ==
    \E io \in {"ok", "send_fails"} :
        /\ ClientCanRun
        /\ feed = "decisions"
        /\ last_request' = RequestOutcome("Unhandled", TRUE, io,
                               ApprovalStatus("Pending", None), None,
                               IF io = "ok" THEN Some("Null") ELSE None, None,
                               IF io = "ok" THEN "Ok" ELSE "Err")
        /\ UNCHANGED <<auto_approve, approvals, conversation_id, pending_feedback, requests,
                       issued_by, registrations, last_registration>>
        /\ UNCHANGED <<runVars, storeVars, claudeVars, codexVars, last_orphan, last_stray, streamVars, driverVars, peerVars>>

\* register_session; accepted tells whether the approval service, when there
\* is one, accepts the registration
ClientRegisterSession ==
    \E c \in ConversationIds, accepted \in BOOLEAN :
        LET flushes == ~approvals \/ accepted
            F == flush_pending_feedback(pending_feedback, Some(c))
        IN  /\ ClientCanRun
            /\ feed = "feedback"
            /\ registrations < MaxRegistrations
            /\ approvals \/ accepted
            /\ conversation_id' = Some(c)
            /\ registrations' = registrations + 1
            /\ last_registration' = IF flushes THEN "Ok" ELSE "Err"
            /\ pending_feedback' = IF flushes THEN F.queue ELSE pending_feedback
            /\ requests' = IF flushes THEN requests \o F.requests ELSE requests
            /\ issued_by' = IF flushes
                            THEN issued_by \o [i \in 1..Len(F.requests) |-> "register_session"]
                            ELSE issued_by
            /\ UNCHANGED <<auto_approve, approvals, last_request>>
            /\ UNCHANGED <<runVars, storeVars, claudeVars, codexVars, last_orphan, last_stray, streamVars, driverVars, peerVars>>

\* on_notification
ClientNotification ==
    \E method \in NotificationMethods :
        LET aborted == Head(method) = "codex/event" /\ method[Len(method)] = "turn_aborted"
            F == flush_pending_feedback(pending_feedback, conversation_id)
        IN  /\ ClientCanRun
            /\ pending_feedback' = IF aborted THEN F.queue ELSE pending_feedback
            /\ requests' = IF aborted THEN requests \o F.requests ELSE requests
            /\ issued_by' = IF aborted
                            THEN issued_by \o [i \in 1..Len(F.requests) |-> "turn_aborted"]
                            ELSE issued_by
            /\ UNCHANGED <<auto_approve, approvals, conversation_id, last_request,
                           registrations, last_registration>>
            /\ UNCHANGED <<runVars, storeVars, claudeVars, codexVars, last_orphan, last_stray, streamVars, driverVars, peerVars>>

ClientNext ==
    \/ ClientApplyPatchApproval
    \/ ClientExecCommandApproval
    \/ ClientUnhandledRequest
    \/ ClientRegisterSession
    \/ ClientNotification

\* =========================================================================
\* The Claude normalizer attached to the store
\* =========================================================================
\* the child writes some more of its stdout and the driver pushes it as one
\* Stdout record
StorePushStdout ==
    \E n \in 1..Len(unwritten) :
        /\ agent = "stream"
        /\ records' = Append(records, StdoutMsg(SubSeq(unwritten, 1, n)))
        /\ unwritten' = SubSeq(unwritten, n + 1, Len(unwritten))
        /\ UNCHANGED <<runVars, storeVars, claudeVars, codexVars, clientVars, driverVars, peerVars, last_orphan,
                       last_stray, stdout_text, subscribed_at, attached, cursor, buffer,
                       done>>

\* the child has exited: the driver pushes Finished
StorePushFinished ==
    /\ agent = "stream"
    /\ unwritten = <<>>
    /\ \A k \in 1..Len(records) : records[k].t # "Finished"
    /\ records' = Append(records, FinishedMsg)
    /\ UNCHANGED <<runVars, storeVars, claudeVars, codexVars, clientVars, driverVars, peerVars, last_orphan,
                   last_stray, stdout_text, unwritten, subscribed_at, attached, cursor,
                   buffer, done>>

\* NormalizeLogs subscribing to the records that are still to come only
NormalizeLogs_stream_only ==
    /\ agent = "stream"
    /\ attached = "no"
    /\ attached' = IF \E k \in 1..Len(records) : records[k].t = "Finished"
                   THEN "late" ELSE "live"
    /\ subscribed_at' = Len(records)
    /\ cursor' = Len(records)
    /\ UNCHANGED <<runVars, storeVars, claudeVars, codexVars, clientVars, driverVars, peerVars, last_orphan,
                   last_stray, stdout_text, unwritten, records, buffer, done>>

\* normalize_logs: process_logs is spawned and subscribes to the store
NormalizeLogs ==
    /\ agent = "stream"
    /\ attached = "no"
    /\ attached' = IF \E k \in 1..Len(records) : records[k].t = "Finished"
                   THEN "late" ELSE "live"
    /\ subscribed_at' = Len(records)
    /\ UNCHANGED <<runVars, storeVars, claudeVars, codexVars, clientVars, driverVars, peerVars, last_orphan,
                   last_stray, stdout_text, unwritten, records, cursor, buffer, done>>

\* the loop state a record of the stream finds
CurSt == LineState(CurP, session_id_extracted, <<>>)

\* what a turn of the loop leaves in the processor and in the store
StreamTurn(St) ==
    /\ session_ids' = session_ids \o St.sids
    /\ session_id_extracted' = St.extracted
    /\ patches' = patches \o St.P.out
    /\ entry_index' = St.P.idx
    /\ model_name' = St.P.model_name
    /\ tool_map' = St.P.tool_map
    /\ streaming_messages' = St.P.sm
    /\ streaming_message_id' = St.P.smid
    /\ answered' = St.P.answered
    /\ streamed' = St.P.streamed
    /\ cursor' = cursor + 1
    /\ UNCHANGED <<runVars, codexVars, clientVars, driverVars, peerVars, first_sid, last_sid, last_orphan,
                   last_stray, stdout_text, unwritten, records, subscribed_at, attached>>

\* process_logs: the stream hands over the next record
StreamCanRead ==
    /\ agent = "stream"
    /\ attached # "no"
    /\ ~done
    /\ cursor < Len(history_plus_stream(records, subscribed_at))

\* LogMsg::Stdout(x): the chunk joins the buffer, the complete lines are
\* processed, the partial line stays
ProcessStdout ==
    /\ StreamCanRead
    /\ history_plus_stream(records, subscribed_at)[cursor + 1].t = "Stdout"
    /\ LET R == process_chunk(CurSt, strategy, buffer,
                    history_plus_stream(records, subscribed_at)[cursor + 1].chunk)
       IN  /\ StreamTurn(R.St)
           /\ buffer' = R.buffer
           /\ done' = FALSE

\* LogMsg::Finished: the loop breaks and the rest of the buffer is flushed
ProcessFinished ==
    /\ StreamCanRead
    /\ history_plus_stream(records, subscribed_at)[cursor + 1].t = "Finished"
    /\ StreamTurn(flush_buffer(CurSt, buffer))
    /\ buffer' = buffer
    /\ done' = TRUE

StreamNext ==
    \/ StorePushStdout
    \/ StorePushFinished
    \/ NormalizeLogs
    \/ ProcessStdout
    \/ ProcessFinished

\* =========================================================================
\* The executor driver
\* =========================================================================
\* ClaudeCode::build_command_builder: the settings document is built when plan
\* or approvals is set
ClaudeBuildCommand ==
    \E plan \in BOOLEAN, approve \in BOOLEAN, backend_port \in {None, Some(BackendPort)} :
        /\ agent = "driver"
        /\ feed = "hook"
        /\ ~command_built
        /\ command_built' = TRUE
        /\ hook_settings' = IF plan \/ approve THEN settings_json(plan, backend_port)
                            ELSE None
        /\ UNCHANGED <<copilotVars, stdout_pending>>
        /\ UNCHANGED <<runVars, storeVars, claudeVars, codexVars, clientVars, last_orphan,
                       last_stray, streamVars, peerVars>>

\* the Copilot child writes some more of its output
CopilotChildWrites ==
    \E n \in 1..Len(child_out) :
        /\ agent = "driver"
        /\ feed = "copilot"
        /\ combined_stdout' = combined_stdout \o SubSeq(child_out, 1, n)
        /\ child_out' = SubSeq(child_out, n + 1, Len(child_out))
        /\ UNCHANGED <<hookVars, watch, appended, line_cursor, handed, stdout_pending>>
        /\ UNCHANGED <<runVars, storeVars, claudeVars, codexVars, clientVars, last_orphan,
                       last_stray, streamVars, peerVars>>

\* Copilot::send_session_id: watch_session_id returns; found tells whether a
\* <uuid>.log file turned up before the timeout
CopilotSendSessionId ==
    \E found \in BOOLEAN :
        /\ agent = "driver"
        /\ feed = "copilot"
        /\ watch = "watching"
        /\ watch' = IF found THEN "found" ELSE "gave_up"
        /\ combined_stdout' = IF found THEN combined_stdout \o session_line(SessionUuid)
                              ELSE combined_stdout
        /\ appended' = IF found THEN appended + 1 ELSE appended
        /\ UNCHANGED <<hookVars, child_out, line_cursor, handed, stdout_pending>>
        /\ UNCHANGED <<runVars, storeVars, claudeVars, codexVars, clientVars, last_orphan,
                       last_stray, streamVars, peerVars>>

\* Copilot::normalize_logs: the loop takes the next line of the stream
CopilotLine ==
    /\ agent = "driver"
    /\ feed = "copilot"
    /\ CanRead
    /\ line_cursor < Len(stdout_lines_stream(combined_stdout))
    /\ LET R == copilot_line(entry_index, stdout_lines_stream(combined_stdout)[line_cursor + 1])
       IN  /\ session_ids' = session_ids \o R.sids
           /\ patches' = patches \o R.out
           /\ entry_index' = entry_index + Len(R.out)
           /\ handed' = handed \o R.handed
    /\ line_cursor' = line_cursor + 1
    /\ UNCHANGED <<hookVars, child_out, combined_stdout, watch, appended, stdout_pending>>
    /\ UNCHANGED <<runVars, claudeVars, codexVars, clientVars, last_orphan, last_stray,
                   streamVars, peerVars>>

\* process_logs with a stderr normalizer on the same provider: for a stdout
\* line that is not JSON the index is taken and the Add is built
SharedTakeIndex ==
    \E line \in SharedFeed :
        /\ agent = "driver"
        /\ feed = "shared"
        /\ CanRead
        /\ stdout_pending = <<>>
        /\ stdout_pending' = <<AddPatch(entry_index,
                                        PlainEntry("SystemMessage", trim(line), NoMeta))>>
        /\ entry_index' = entry_index + 1
        /\ UNCHANGED <<patches, session_ids>>
        /\ UNCHANGED <<runVars, claudeVars, codexVars, clientVars, last_orphan, last_stray,
                       streamVars, hookVars, copilotVars, peerVars>>

\* process_logs: msg_store.push_patch of the Add that was built
SharedPushPatch ==
    /\ agent = "driver"
    /\ feed = "shared"
    /\ stdout_pending # <<>>
    /\ patches' = Append(patches, Head(stdout_pending))
    /\ stdout_pending' = Tail(stdout_pending)
    /\ UNCHANGED <<entry_index, session_ids>>
    /\ UNCHANGED <<runVars, claudeVars, codexVars, clientVars, last_orphan, last_stray,
                   streamVars, hookVars, copilotVars, peerVars>>

\* normalize_stderr_logs: a stderr line becomes an ErrorMessage; taking the
\* index and pushing the Add are one step here
SharedStderrLine ==
    \E line \in StderrLines :
        /\ agent = "driver"
        /\ feed = "shared"
        /\ CanRead
        /\ patches' = Append(patches, AddPatch(entry_index,
                                 PlainEntry("ErrorMessage", line, NoMeta)))
        /\ entry_index' = entry_index + 1
        /\ UNCHANGED <<session_ids, stdout_pending>>
        /\ UNCHANGED <<runVars, claudeVars, codexVars, clientVars, last_orphan, last_stray,
                       streamVars, hookVars, copilotVars, peerVars>>

DriverNext ==
    \/ ClaudeBuildCommand
    \/ CopilotChildWrites
    \/ CopilotSendSessionId
    \/ CopilotLine
    \/ SharedTakeIndex
    \/ SharedPushPatch
    \/ SharedStderrLine

\* =========================================================================
\* The tasks of the Codex app-server client
\* =========================================================================
\* on_request on the peer task: handle_server_request obtains the status,
\* writes the log and answers the server; a reason is left to be queued
PeerOnRequest ==
    /\ agent = "peer"
    /\ peer_task.pc = "idle"
    /\ served < MaxServerRequests
    /\ \E kind \in {"ApplyPatchApproval", "ExecCommandApproval"},
          io \in {"ok", "log_fails", "send_fails"} :
        \E answer \in PeerAnswers(ServerRequestIds[served + 1]) :
            LET id == ServerRequestIds[served + 1]
                R == handle_server_request(kind, ApprovalToolName(kind), auto_approve,
                                           approvals, answer, io)
            IN  /\ served' = served + 1
                /\ last_request' = R
                /\ handled' = [id |-> id, effects |-> handler_effects(id, R),
                               feedback |-> review_decision(auto_approve, R.status).feedback,
                               io |-> io]
                /\ aborts_owed' = IF R.response = Some("Abort") THEN aborts_owed + 1
                                  ELSE aborts_owed
                /\ peer_task' = IF IsSome(R.feedback)
                                THEN [pc |-> "responded", messages |-> <<Get(R.feedback)>>]
                                ELSE Idle
                /\ UNCHANGED <<auto_approve, approvals, conversation_id, pending_feedback,
                               requests, issued_by, registrations, last_registration>>
                /\ UNCHANGED <<driver_task, enqueued, wire>>
                /\ UNCHANGED <<runVars, storeVars, claudeVars, codexVars, last_orphan,
                               last_stray, streamVars, driverVars>>

\* handle_server_request, after the response: enqueue_feedback takes the
\* queue mutex and pushes the reason
PeerEnqueueFeedback ==
    LET message == Head(peer_task.messages)
        queue == enqueue_feedback(pending_feedback, message)
    IN  /\ agent = "peer"
        /\ peer_task.pc = "responded"
        /\ pending_feedback' = queue
        /\ enqueued' = Append(enqueued, [text |-> message,
                                         registered |-> IsSome(conversation_id)])
        /\ handled' = [handled EXCEPT !.effects = Append(@, [t |-> "enqueue", id |-> handled.id])]
        /\ peer_task' = Idle
        /\ UNCHANGED <<auto_approve, approvals, conversation_id, requests, last_request,
                       issued_by, registrations, last_registration>>
        /\ UNCHANGED <<driver_task, served, aborts_owed, wire>>
        /\ UNCHANGED <<runVars, storeVars, claudeVars, codexVars, last_orphan, last_stray,
                       streamVars, driverVars>>

\* on_notification on the peer task with the turn_aborted that answers an
\* Abort: flush_pending_feedback drains the queue under its mutex
PeerTurnAborted ==
    LET D == drain(pending_feedback)
    IN  /\ agent = "peer"
        /\ peer_task.pc = "idle"
        /\ aborts_owed > 0
        /\ aborts_owed' = aborts_owed - 1
        /\ pending_feedback' = D.queue
        /\ peer_task' = IF D.messages = <<>> THEN Idle
                        ELSE [pc |-> "drained", messages |-> D.messages]
        /\ UNCHANGED <<auto_approve, approvals, conversation_id, requests, last_request,
                       issued_by, registrations, last_registration>>
        /\ UNCHANGED <<driver_task, handled, served, enqueued, wire>>
        /\ UNCHANGED <<runVars, storeVars, claudeVars, codexVars, last_orphan, last_stray,
                       streamVars, driverVars>>

\* flush_pending_feedback on the peer task, after the drain: the conversation
\* id is read and one request is spawned per drained message
PeerSpawnFeedback ==
    LET F == flush_pending_feedback(peer_task.messages, conversation_id)
    IN  /\ agent = "peer"
        /\ peer_task.pc = "drained"
        /\ requests' = requests \o F.requests
        /\ issued_by' = issued_by \o [i \in 1..Len(F.requests) |-> "turn_aborted"]
        /\ peer_task' = Idle
        /\ UNCHANGED <<auto_approve, approvals, conversation_id, pending_feedback,
                       last_request, registrations, last_registration>>
        /\ UNCHANGED <<driver_task, handled, served, aborts_owed, enqueued, wire>>
        /\ UNCHANGED <<runVars, storeVars, claudeVars, codexVars, last_orphan, last_stray,
                       streamVars, driverVars>>

\* register_session on the driver's task: the conversation id is stored
DriverStoreConversationId ==
    \E c \in ConversationIds :
        /\ agent = "peer"
        /\ driver_task.pc = "idle"
        /\ registrations < MaxRegistrations
        /\ registrations' = registrations + 1
        /\ conversation_id' = Some(c)
        /\ driver_task' = [pc |-> "stored", messages |-> <<>>]
        /\ UNCHANGED <<auto_approve, approvals, pending_feedback, requests, last_request,
                       issued_by, last_registration>>
        /\ UNCHANGED <<peer_task, handled, served, aborts_owed, enqueued, wire>>
        /\ UNCHANGED <<runVars, storeVars, claudeVars, codexVars, last_orphan, last_stray,
                       streamVars, driverVars>>

\* register_session, after the approval service answered the registration:
\* an error is returned, or flush_pending_feedback drains the queue
DriverDrainFeedback ==
    \E accepted \in BOOLEAN :
        LET D == drain(pending_feedback)
        IN  /\ agent = "peer"
            /\ driver_task.pc = "stored"
            /\ last_registration' = IF accepted THEN "Ok" ELSE "Err"
            /\ pending_feedback' = IF accepted THEN D.queue ELSE pending_feedback
            /\ driver_task' = IF accepted /\ D.messages # <<>>
                              THEN [pc |-> "drained", messages |-> D.messages]
                              ELSE Idle
            /\ UNCHANGED <<auto_approve, approvals, conversation_id, requests,
                           last_request, issued_by, registrations>>
            /\ UNCHANGED <<peer_task, handled, served, aborts_owed, enqueued, wire>>
            /\ UNCHANGED <<runVars, storeVars, claudeVars, codexVars, last_orphan,
                           last_stray, streamVars, driverVars>>

\* flush_pending_feedback on the driver's task, after the drain
DriverSpawnFeedback ==
    LET F == flush_pending_feedback(driver_task.messages, conversation_id)
    IN  /\ agent = "peer"
        /\ driver_task.pc = "drained"
        /\ requests' = requests \o F.requests
        /\ issued_by' = issued_by \o [i \in 1..Len(F.requests) |-> "register_session"]
        /\ driver_task' = Idle
        /\ UNCHANGED <<auto_approve, approvals, conversation_id, pending_feedback,
                       last_request, registrations, last_registration>>
        /\ UNCHANGED <<peer_task, handled, served, aborts_owed, enqueued, wire>>
        /\ UNCHANGED <<runVars, storeVars, claudeVars, codexVars, last_orphan, last_stray,
                       streamVars, driverVars>>

\* the task spawn_feedback_message spawned for a request writes it to the peer
FeedbackTaskSends ==
    \E k \in 1..Len(requests) :
        /\ agent = "peer"
        /\ k \notin Range(wire)
        /\ wire' = Append(wire, k)
        /\ UNCHANGED clientVars
        /\ UNCHANGED <<peer_task, driver_task, handled, served, aborts_owed, enqueued>>
        /\ UNCHANGED <<runVars, storeVars, claudeVars, codexVars, last_orphan, last_stray,
                       streamVars, driverVars>>

PeerNext ==
    \/ PeerOnRequest
    \/ PeerEnqueueFeedback
    \/ PeerTurnAborted
    \/ PeerSpawnFeedback
    \/ DriverStoreConversationId
    \/ DriverDrainFeedback
    \/ DriverSpawnFeedback
    \/ FeedbackTaskSends

Next == ClaudeNext \/ CodexNext \/ ClientNext \/ StreamNext \/ DriverNext \/ PeerNext

Spec == Init /\ [][Next]_vars

\* =========================================================================
\* Properties
\* =========================================================================
\* positions of the patch history
Pos == 1..Len(patches)
\* how many Adds precede position k
AddsBefore(k) == Cardinality({j \in 1..(k - 1) : patches[j].op = "add"})
\* In the Claude normalizer only the AmpResume erase emits Remove patches, so
\* a Claude run without Remove patches is a run in which no reset took effect.
NoAmpReset == agent = "claude" => \A k \in Pos : patches[k].op # "remove"

\* C1: in a Claude run the session ids pushed are exactly the id of the first
\* record that carried one (nothing while no record carried one); ids on
\* later records, equal or different, push nothing.
C1_ClaudeSessionIdOnce ==
    agent = "claude" =>
        session_ids = (IF first_sid = None THEN <<>> ELSE <<Get(first_sid)>>)

\* a later record carried a different session id and nothing more was pushed
C1_Witness ==
    /\ agent = "claude"
    /\ session_ids = <<"s1">>
    /\ last_sid = Some("s2")

\* C2: in a Codex run a session id is pushed at most once.
C2_CodexSessionIdOnce == agent = "codex" => Len(session_ids) <= 1

\* C3: without an AmpResume reset no two Adds share an index, the indices
\* handed out are 0, 1, ... with no gaps (the provider stands at the number
\* of Adds, those a task still holds included), and every other patch is a
\* Replace or a Remove that addresses an index an earlier Add introduced:
\* nothing relocates an entry. Where one normalizer owns the provider the
\* k-th Add in the store carries index k-1.
C3_AddIndicesConsecutive ==
    LET issued == patches \o stdout_pending
        adds == {k \in DOMAIN issued : issued[k].op = "add"}
    IN  NoAmpReset =>
        /\ entry_index = Cardinality(adds)
        /\ \A k \in DOMAIN issued :
              /\ issued[k].op \in {"add", "replace", "remove"}
              /\ issued[k].op = "add" =>
                    /\ issued[k].index < entry_index
                    /\ \A j \in adds : issued[j].index = issued[k].index => j = k
              /\ issued[k].op # "add" =>
                    \E j \in adds : j < k /\ issued[j].index = issued[k].index
        /\ agent # "driver" =>
              \A k \in Pos : patches[k].op = "add" => patches[k].index = AddsBefore(k)

\* three Adds with a Replace or a Remove among the patches
C3_Witness ==
    /\ NoAmpReset
    /\ AddsBefore(Len(patches) + 1) >= 2
    /\ \E k \in Pos : patches[k].op # "add"
    /\ \E k \in Pos : patches[k].op = "add" /\ patches[k].index = 1

\* the Add that introduced the entry a patch at position k addresses: the
\* latest Add at the same index before k (0 when there is none)
IntroducedAt(k) ==
    LET adds == {j \in 1..(k - 1) :
                    patches[j].op = "add" /\ patches[j].index = patches[k].index}
    IN  IF adds = {} THEN 0 ELSE CHOOSE j \in adds : \A i \in adds : i <= j
\* positions j < k that address the same entry as k, with no reset in between
SameEntry(j, k) ==
    /\ j < k
    /\ patches[j].index = patches[k].index
    /\ patches[j].op \in {"add", "replace"}
    /\ patches[k].op = "replace"
    /\ IntroducedAt(k) # 0
    /\ IntroducedAt(k) <= j

\* C4: every Replace carries the entry kind of the Add that introduced its
\* index.
C4_ReplaceKeepsKind ==
    NoAmpReset =>
        \A k \in Pos :
            (patches[k].op = "replace" /\ IntroducedAt(k) # 0) =>
                patches[k].entry.kind = patches[IntroducedAt(k)].entry.kind

\* C5: once a patch gives a ToolUse entry the status Success or Failed, every
\* later patch of that entry carries the same status.
C5_StatusNeverReverts ==
    NoAmpReset =>
        \A j, k \in Pos :
            (/\ SameEntry(j, k)
             /\ patches[j].entry.kind = "ToolUse"
             /\ patches[k].entry.kind = "ToolUse"
             /\ patches[j].entry.status \in {"Success", "Failed"}) =>
                patches[k].entry.status = patches[j].entry.status

\* C6: a Replace of a ToolUse entry carries the content string, the tool name
\* and the action of the Add that created the entry; of the action only the
\* result may differ.
C6_ReplaceKeepsContent ==
    NoAmpReset =>
        \A k \in Pos :
            (/\ patches[k].op = "replace"
             /\ IntroducedAt(k) # 0
             /\ patches[IntroducedAt(k)].entry.kind = "ToolUse"
             /\ patches[k].entry.kind = "ToolUse") =>
                LET created == patches[IntroducedAt(k)].entry
                    now == patches[k].entry
                IN  /\ now.content = created.content
                    /\ now.tool_name = created.tool_name
                    /\ now.action = [created.action EXCEPT !.result = now.action.result]

\* the tool kinds whose tool_result rewrites the ToolUse entry
RewrittenByResult(tool_data) == tool_data.kind = "Bash" \/ IsOpaqueTool(tool_data)
\* the latest patch that addresses index i (0 when there is none)
LastAt(i) ==
    LET ks == {k \in Pos : patches[k].index = i}
    IN  IF ks = {} THEN 0 ELSE CHOOSE k \in ks : \A j \in ks : j <= k
\* the result value the code derives from a tool_result of the given tool
TranslatedResult(tool_data, content, is_error) ==
    IF tool_data.kind = "Bash" THEN bash_result(content, is_error)
    ELSE normalize_claude_tool_result_value(content)
\* the registered ToolUse x was answered and its entry shows the answer
ShowsResult(x) ==
    LET info == tool_map[x]
        k == LastAt(info.entry_index)
    IN  /\ k # 0
        /\ patches[k].entry.kind = "ToolUse"
        /\ patches[k].entry.status \in {"Success", "Failed"}
        /\ patches[k].entry.status = result_status(answered[x].is_error)
        /\ patches[k].entry.action.result =
              Some(TranslatedResult(info.tool_data, answered[x].content,
                                    answered[x].is_error))

NewPatches == SubSeq(patches', Len(patches) + 1, Len(patches'))

\* C8: a line that is nothing but a result for a call nobody tracks (a Claude
\* user record of tool_results whose ids are not in tool_map; a Codex
\* ExecCommandOutputDelta, ExecCommandEnd, McpToolCallEnd, PatchApplyEnd or
\* WebSearchEnd with an untracked call id) appends no patch, takes no index
\* and leaves the per-call maps as they were.
C8_OrphanResultDropped ==
    [][last_orphan' =>
          /\ patches' = patches
          /\ entry_index' = entry_index
          /\ tool_map' = tool_map
          /\ commands' = commands
          /\ mcp_tools' = mcp_tools
          /\ state_patches' = state_patches
          /\ web_searches' = web_searches]_vars

\* a Codex result for an untracked call arrived while another call was open
C8_Witness ==
    /\ agent = "codex"
    /\ last_orphan
    /\ DOMAIN commands = {"c1"}
    /\ Len(patches) >= 1

\* the streamed block a content_block_delta record addresses, as the delta
\* finds it: the stored block, or the empty block of the delta's kind
BlockBefore(r) ==
    LET contents == streaming_messages[Get(streaming_message_id)].contents
    IN  IF Has(contents, r.event.index) THEN Some(contents[r.event.index])
        ELSE from_delta(r.event.delta)
\* r is a content_block_delta of the kind of the block it addresses, arriving
\* within a streaming message
DeltaOfBlockKind(r) ==
    /\ r.event.type = "content_block_delta"
    /\ IsSome(streaming_message_id)
    /\ Has(streaming_messages, Get(streaming_message_id))
    /\ IsSome(BlockBefore(r))
    /\ \/ Get(BlockBefore(r)).kind = "Text" /\ r.event.delta.type = "text_delta"
       \/ Get(BlockBefore(r)).kind = "Thinking" /\ r.event.delta.type = "thinking_delta"

\* C9: within a streaming message a delta of the block's kind appends exactly
\* one patch whose content is the block's text so far followed by the delta:
\* an Add at a fresh index when the block has no entry yet (its first delta),
\* a Replace at the block's entry index afterwards; the block keeps the index.
C9_DeltasGrowOneEntry ==
    [][\A r \in ClaudeRecs("stream_event") :
          (DeltaOfBlockKind(r) /\ ClaudeLine(r)) =>
              LET before == Get(BlockBefore(r))
                  mid == Get(streaming_message_id)
                  text == before.buffer \o r.event.delta.text
                  after == streaming_messages'[mid].contents[r.event.index]
              IN  /\ Len(NewPatches) = 1
                  /\ NewPatches[1].entry.content = text
                  /\ NewPatches[1].entry.kind =
                        (IF before.kind = "Text" THEN "AssistantMessage" ELSE "Thinking")
                  /\ after.buffer = text
                  /\ IF before.entry_index = None
                     THEN /\ NewPatches[1].op = "add"
                          /\ NewPatches[1].index = entry_index
                          /\ entry_index' = entry_index + 1
                          /\ after.entry_index = Some(entry_index)
                     ELSE /\ NewPatches[1].op = "replace"
                          /\ NewPatches[1].index = Get(before.entry_index)
                          /\ entry_index' = entry_index
                          /\ after.entry_index = before.entry_index]_vars

\* a block that started with text ">" took two deltas: one Add, one Replace
C9_Witness ==
    /\ agent = "claude"
    /\ IsSome(streaming_message_id)
    /\ Has(streaming_messages, Get(streaming_message_id))
    /\ LET contents == streaming_messages[Get(streaming_message_id)].contents
       IN  /\ Has(contents, 1)
           /\ contents[1].buffer = <<">", "He", "He">>
           /\ \E j, k \in Pos :
                 /\ j < k
                 /\ patches[j] = AddPatch(Get(contents[1].entry_index),
                                          patches[j].entry)
                 /\ patches[j].entry.content = <<">", "He">>
                 /\ patches[k] = ReplacePatch(Get(contents[1].entry_index),
                                              patches[k].entry)
                 /\ patches[k].entry.content = <<">", "He", "He">>

\* C10: when an assistant record with message id m delivers a text or
\* thinking block at a content position whose block was streamed (Added by a
\* delta of message m at index i), the record writes the block by a Replace at
\* i and emits no Add for it.
C10_StreamedBlockReplaced ==
    [][\A r \in ClaudeRecs("assistant") :
          (ClaudeLine(r) /\ IsSome(r.message.id)) =>
              \A k \in 1..Len(r.message.content) :
                  (/\ r.message.content[k].type \in {"text", "thinking"}
                   /\ <<Get(r.message.id), k - 1>> \in DOMAIN streamed) =>
                      LET i == streamed[<<Get(r.message.id), k - 1>>]
                          entry == Get(content_item_to_normalized_entry(
                                           r.message.content[k], r.message.role))
                      IN  /\ \E q \in 1..Len(NewPatches) :
                                NewPatches[q] = ReplacePatch(i, entry)
                          /\ \A q \in 1..Len(NewPatches) :
                                ~(NewPatches[q].op = "add" /\ NewPatches[q].entry = entry)]_vars

\* the tool_result items of a user record
ToolResults(r) == SelectSeq(r.message.content, LAMBDA it : it.type = "tool_result")
\* the text of a tool_result content as the denial hook writes it
ContentText(content) ==
    IF content.t = "string" THEN content.s
    ELSE IF content.t = "array" THEN Join(content.items, <<"\n">>)
    ELSE value_to_string(content)
\* the content carries the marker followed by text that is not blank
CarriesFeedback(content) ==
    \E i \in 1..Len(ContentText(content)) :
        /\ ContentText(content)[i] = USER_FEEDBACK_MARKER
        /\ \A j \in 1..(i - 1) : ContentText(content)[j] # USER_FEEDBACK_MARKER
        /\ trim(SubSeq(ContentText(content), i + 1, Len(ContentText(content)))) # <<>>
\* the text X after the first marker, without surrounding whitespace
FeedbackText(content) ==
    LET s == ContentText(content)
        i == CHOOSE j \in 1..Len(s) :
                 s[j] = USER_FEEDBACK_MARKER
                 /\ \A k \in 1..(j - 1) : s[k] # USER_FEEDBACK_MARKER
    IN  trim(SubSeq(s, i + 1, Len(s)))
\* the UserFeedback Adds among the patches of the step under way
NewFeedback == SelectSeq(NewPatches, LAMBDA p : p.entry.kind = "UserFeedback")
\* position in NewPatches of the i-th UserFeedback patch
FeedbackPos(i) ==
    CHOOSE k \in 1..Len(NewPatches) :
        /\ NewPatches[k].entry.kind = "UserFeedback"
        /\ Cardinality({j \in 1..k : NewPatches[j].entry.kind = "UserFeedback"}) = i
\* a tool_result that reports a failure, answers a registered ToolUse and
\* carries feedback
DeniedWithFeedback(it) ==
    /\ it.is_error = Some(TRUE)
    /\ Has(tool_map, it.id)
    /\ CarriesFeedback(it.content)
\* the feedback patches a user record produces for the tool_results in q, in
\* order: each an Add of a UserFeedback entry at a fresh index with content X
\* and the display name of the denied tool, placed right after the Replace of
\* the ToolUse entry when the tool kind has one
FeedbackAddedFor(q) ==
    /\ Len(NewFeedback) = Len(q)
    /\ \A i \in 1..Len(q) :
          LET p == NewFeedback[i]
              k == FeedbackPos(i)
              info == tool_map[q[i].id]
          IN  /\ p.op = "add"
              /\ p.index >= entry_index /\ p.index < entry_index'
              /\ p.entry.content = FeedbackText(q[i].content)
              /\ p.entry.denied_tool =
                    (IF info.tool_data.kind = "Bash" THEN info.tool_name
                     ELSE IF starts_with_mcp(get_name(info.tool_data))
                     THEN mcp_label(get_name(info.tool_data))
                     ELSE get_name(info.tool_data))
              /\ RewrittenByResult(info.tool_data) =>
                    /\ k > 1
                    /\ NewPatches[k - 1].op = "replace"
                    /\ NewPatches[k - 1].index = info.entry_index
                    /\ NewPatches[k - 1].entry.status = "Failed"

ApprovalHandled ==
    /\ agent = "client"
    /\ last_request.kind \in {"ApplyPatchApproval", "ExecCommandApproval"}
    /\ last_request.io = "ok"
\* a denial reason that has text besides whitespace
HasText(reason) == IsSome(reason) /\ trim(Get(reason)) # <<>>

\* C12 (as amended): the decision sent and the feedback queued for an
\* approval status are: with auto_approve, ApprovedForSession and no
\* feedback; otherwise Approved -> Approved, Denied with a reason that has
\* text -> Abort with the trimmed reason as feedback, Denied without a reason
\* or with a blank one -> Denied, TimedOut -> Denied, Pending -> Denied, and
\* no feedback in any case but Denied with a reason that has text.
C12_ReviewDecisionMapping ==
    ApprovalHandled =>
        LET st == last_request.status
            decision == last_request.response
            feedback == last_request.feedback
        IN  IF auto_approve
            THEN decision = Some("ApprovedForSession") /\ feedback = None
            ELSE /\ st.t = "Approved" => decision = Some("Approved") /\ feedback = None
                 /\ (st.t = "Denied" /\ HasText(st.reason)) =>
                       decision = Some("Abort") /\ feedback = Some(trim(Get(st.reason)))
                 /\ (st.t = "Denied" /\ ~HasText(st.reason)) =>
                       decision = Some("Denied") /\ feedback = None
                 /\ st.t \in {"TimedOut", "Pending"} =>
                       decision = Some("Denied") /\ feedback = None

\* a denial whose reason carries surrounding blanks was answered with Abort
\* and the trimmed reason
C12_Witness ==
    /\ agent = "client"
    /\ ~auto_approve
    /\ last_request.status = ApprovalStatus("Denied", Some(<<" ", "no", " ">>))
    /\ last_request.response = Some("Abort")
    /\ last_request.feedback = Some(T("no"))

\* C12 as the claim states it: every Denied status with Some reason is
\* answered with Abort and the reason as feedback.
C12_DeniedWithReasonAborts ==
    (ApprovalHandled /\ ~auto_approve /\ last_request.status.t = "Denied"
        /\ IsSome(last_request.status.reason)) =>
        /\ last_request.response = Some("Abort")
        /\ last_request.feedback \in {last_request.status.reason,
                                      Some(trim(Get(last_request.status.reason)))}

\* C13: a turn_aborted notification that arrives while no conversation id is
\* registered leaves the feedback queue as it was.
C13_DrainWithoutIdKeepsQueue ==
    [][(ClientNotification /\ conversation_id = None) =>
          pending_feedback' = pending_feedback]_vars

\* the step under way handles an approval request
ApprovalStep == ClientApplyPatchApproval \/ ClientExecCommandApproval

\* C14 (as amended): handling an approval request issues no sendUserMessage,
\* whether or not a conversation id is registered; a denial reason with text
\* is appended to the feedback queue, where it waits for the next flush
\* (register_session or a turn_aborted notification).
C14_DenialReasonOnlyQueued ==
    [][ApprovalStep =>
          /\ requests' = requests
          /\ pending_feedback' =
                (IF IsSome(last_request'.feedback)
                 THEN Append(pending_feedback, Get(last_request'.feedback))
                 ELSE pending_feedback)]_vars

\* after the only registration, which sent what was queued before it, a
\* denial with the reason "no" was handled and its reason is still queued
C14_Witness ==
    /\ agent = "client"
    /\ registrations = 1
    /\ IsSome(conversation_id)
    /\ issued_by = <<"register_session">>
    /\ Len(requests) = 1
    /\ last_request.feedback = Some(T("no"))
    /\ pending_feedback = <<T("no")>>

\* C14 as the claim states it: with a conversation id registered, handling a
\* denial with a reason issues the sendUserMessage at once.
C14_DenialReasonSentAtOnce ==
    [][(ApprovalStep /\ IsSome(conversation_id) /\ IsSome(last_request'.feedback)) =>
          /\ Len(requests') = Len(requests) + 1
          /\ requests'[Len(requests')].text =
                <<"User feedback: ">> \o Get(last_request'.feedback)]_vars

C16_ServiceFailureIsDenial ==
    (ApprovalHandled /\ ~last_request.approved_ok) =>
        /\ ~auto_approve
        /\ last_request.status =
              ApprovalStatus("Denied", Some(T("approval service error")))
        /\ IsSome(last_request.logged)
        /\ Get(last_request.logged).approval_status = last_request.status
        /\ IsSome(last_request.response)
        /\ last_request.result = "Ok"

\* a client without approval service answered an approval request
C16_Witness ==
    /\ agent = "client"
    /\ ~approvals
    /\ ~auto_approve
    /\ last_request.kind = "ExecCommandApproval"
    /\ ~last_request.approved_ok
    /\ last_request.response = Some("Abort")
    /\ last_request.result = "Ok"
    /\ pending_feedback = <<T("approval service error")>>

\* C17: an ExecCommandEnd for a tracked call id appends exactly one Replace
\* at the command's index; the replaced entry has status Success when the
\* exit code is 0 and Failed otherwise, and carries the exit code and the
\* formatted output of the event; the call id leaves the commands map and no
\* index is taken. An ExecCommandOutputDelta or ExecCommandEnd for a call id
\* that is not in the map appends nothing.
C17_ExecCommandEndFinishes ==
    [][/\ \A l \in CodexEvents("ExecCommandEnd") :
            (CodexLine(l, on_exec_command_end(CurS, l.event))
             /\ Has(commands, l.event.call_id)) =>
                LET c == commands[l.event.call_id] IN
                /\ Len(NewPatches) = 1
                /\ NewPatches[1].op = "replace"
                /\ NewPatches[1].index = Get(c.index)
                /\ NewPatches[1].entry.kind = "ToolUse"
                /\ NewPatches[1].entry.status =
                      (IF l.event.exit_code = 0 THEN "Success" ELSE "Failed")
                /\ NewPatches[1].entry.action.type = "CommandRun"
                /\ NewPatches[1].entry.action.result =
                      Some(CommandRunResult(Some(ExitCode(l.event.exit_code)),
                                            Some(l.event.text)))
                /\ ~Has(commands', l.event.call_id)
                /\ entry_index' = entry_index
       /\ \A l \in CodexEvents("ExecCommandEnd") :
            (CodexLine(l, on_exec_command_end(CurS, l.event))
             /\ ~Has(commands, l.event.call_id)) => NewPatches = <<>>
       /\ \A l \in CodexEvents("ExecCommandOutputDelta") :
            (CodexLine(l, on_exec_command_output_delta(CurS, l.event))
             /\ ~Has(commands, l.event.call_id)) => NewPatches = <<>>]_vars

\* the command c1 began, streamed to stdout and ended with exit code 1
C17_Witness ==
    /\ agent = "codex"
    /\ Len(patches) = 3
    /\ patches[1].op = "add"
    /\ patches[2].op = "replace"
    /\ patches[2].entry.action.result = Some(CommandRunResult(None, Some(<<"stdout:\n", "o">>)))
    /\ patches[3].op = "replace"
    /\ patches[3].index = patches[1].index
    /\ patches[3].entry.status = "Failed"
    /\ patches[3].entry.action.result =
          Some(CommandRunResult(Some(ExitCode(1)), Some(T("oops"))))
    /\ ~Has(commands, "c1")

\* C18: in a Codex run, after every event at most one of the two streaming
\* slots (assistant text, thinking text) is active. A delta of one kind
\* clears the slot of the other kind, and when that other slot was active
\* the delta opens a new entry: one Add at a fresh index whose content is
\* the delta's text alone.
C18_StreamingSlotsExclusive ==
    [][/\ ~(IsSome(assistant') /\ IsSome(thinking'))
       /\ \A l \in CodexEvents("AgentMessageDelta") :
            CodexLine(l, on_agent_message_delta(CurS, l.event)) =>
                /\ thinking' = None
                /\ IsSome(assistant')
                /\ IsSome(thinking) =>
                      /\ NewPatches = <<AddPatch(entry_index,
                            PlainEntry("AssistantMessage", l.event.text, NoMeta))>>
                      /\ entry_index' = entry_index + 1
       /\ \A l \in CodexEvents("AgentReasoningDelta") :
            CodexLine(l, on_agent_reasoning_delta(CurS, l.event)) =>
                /\ assistant' = None
                /\ IsSome(thinking')
                /\ IsSome(assistant) =>
                      /\ NewPatches = <<AddPatch(entry_index,
                            PlainEntry("Thinking", l.event.text, NoMeta))>>
                      /\ entry_index' = entry_index + 1]_vars

\* assistant delta, reasoning delta, assistant delta: three entries, the
\* third opened by the delta that followed the reasoning
C18_Witness ==
    /\ agent = "codex"
    /\ patches = <<AddPatch(0, PlainEntry("AssistantMessage", T("He"), NoMeta)),
                   AddPatch(1, PlainEntry("Thinking", T("hm"), NoMeta)),
                   AddPatch(2, PlainEntry("AssistantMessage", T("llo"), NoMeta))>>
    /\ assistant = Some(StreamingText(2, T("llo")))
    /\ thinking = None

\* the indices of the patches of the given kind in a sequence of patches
RECURSIVE IndicesOf(_, _)
IndicesOf(ps, op) ==
    IF ps = <<>> THEN <<>>
    ELSE (IF Head(ps).op = op THEN <<Head(ps).index>> ELSE <<>>)
         \o IndicesOf(Tail(ps), op)

\* the indices the entries of a call hold, in order
RECURSIVE EntryIndices(_)
EntryIndices(entries) ==
    IF entries = <<>> THEN <<>>
    ELSE (IF IsSome(Head(entries).index) THEN <<Get(Head(entries).index)>> ELSE <<>>)
         \o EntryIndices(Tail(entries))

\* C19: an ApplyPatchApprovalRequest for a call id that already has preview
\* entries appends one Remove per index of those entries, in their order,
\* and after the Removes one Add per change of the new request, at
\* consecutive fresh indices and with status Created; the call's state then
\* holds exactly the new indices. In the whole stream no Add or Replace
\* that follows a Remove targets the removed index.
C19_RepeatedApprovalReplacesPreviews ==
    [][/\ \A l \in CodexEvents("ApplyPatchApprovalRequest") :
            (CodexLine(l, on_apply_patch_approval_request(CurS, l.event))
             /\ Has(state_patches, l.event.call_id)) =>
                LET old == EntryIndices(state_patches[l.event.call_id])
                    n == Len(normalize_file_changes(l.event.changes))
                IN  /\ Len(NewPatches) = Len(old) + n
                    /\ \A k \in 1..Len(old) : NewPatches[k] = RemovePatch(old[k])
                    /\ \A k \in 1..n :
                          /\ NewPatches[Len(old) + k].op = "add"
                          /\ NewPatches[Len(old) + k].index = entry_index + k - 1
                          /\ NewPatches[Len(old) + k].entry.status = "Created"
                    /\ entry_index' = entry_index + n
                    /\ EntryIndices(state_patches'[l.event.call_id])
                          = [k \in 1..n |-> entry_index + k - 1]
       /\ agent = "codex" =>
            \A j \in 1..Len(patches'), k \in 1..Len(patches') :
                (j < k /\ patches'[j].op = "remove") =>
                    patches'[k].index # patches'[j].index]_vars

\* approval for a.rs, a second approval for the same call, then begin and
\* end: the preview at index 0 is removed and everything later is at index 1
C19_Witness ==
    /\ agent = "codex"
    /\ Len(patches) = 5
    /\ IndicesOf(patches, "add") = <<0, 1>>
    /\ IndicesOf(patches, "remove") = <<0>>
    /\ IndicesOf(patches, "replace") = <<1, 1>>
    /\ patches[2] = RemovePatch(0)
    /\ patches[3].entry.status = "Created"
    /\ patches[5].entry.status = "Success"

C21_ResultConsumesMapEntry ==
    [][/\ \A r \in ClaudeRecs("user") : ClaudeLine(r) =>
            \A k \in 1..Len(ToolResults(r)) :
                ~Has(tool_map', ToolResults(r)[k].id)
       /\ \A l \in CodexEvents("ExecCommandEnd") :
            CodexLine(l, on_exec_command_end(CurS, l.event)) =>
                ~Has(commands', l.event.call_id)]_vars

\* r is a content_block_delta that addresses a block of the current
\* streaming message whose kind is not the delta's kind
DeltaOfOtherKind(r) ==
    /\ r.event.type = "content_block_delta"
    /\ IsSome(streaming_message_id)
    /\ Has(streaming_messages, Get(streaming_message_id))
    /\ Has(streaming_messages[Get(streaming_message_id)].contents, r.event.index)
    /\ LET block == streaming_messages[Get(streaming_message_id)].contents[r.event.index]
       IN  ~ \/ block.kind = "Text" /\ r.event.delta.type = "text_delta"
             \/ block.kind = "Thinking" /\ r.event.delta.type = "thinking_delta"

\* C22: a content_block_delta whose kind does not match the kind of the
\* block it addresses (text_delta on a Thinking block, thinking_delta on a
\* Text block, a delta of unknown type) is dropped: the streaming state is
\* unchanged, no index is taken and no patch is appended.
C22_MismatchedDeltaDropped ==
    [][\A r \in ClaudeRecs("stream_event") :
          (DeltaOfOtherKind(r) /\ ClaudeLine(r)) =>
              /\ streaming_messages' = streaming_messages
              /\ entry_index' = entry_index
              /\ NewPatches = <<>>]_vars

\* r is a content_block_delta for a block index that the current streaming
\* message has no block for
DeltaUnannounced(r) ==
    /\ r.event.type = "content_block_delta"
    /\ IsSome(streaming_message_id)
    /\ Has(streaming_messages, Get(streaming_message_id))
    /\ ~Has(streaming_messages[Get(streaming_message_id)].contents, r.event.index)

\* C23: a content_block_delta for a block index that no content_block_start
\* announced in the current streaming message is dropped only when its type
\* is unknown: then the streaming state is unchanged, no index is taken and
\* no patch is appended. A text_delta or thinking_delta makes the block on
\* the spot, with the delta's kind and the delta's text as its buffer, and
\* appends one Add at a fresh index that the block keeps.
C23_UnannouncedDeltaMakesBlock ==
    [][\A r \in ClaudeRecs("stream_event") :
          (DeltaUnannounced(r) /\ ClaudeLine(r)) =>
              IF r.event.delta.type \in {"text_delta", "thinking_delta"}
              THEN LET kind == IF r.event.delta.type = "text_delta"
                               THEN "Text" ELSE "Thinking"
                       mid == Get(streaming_message_id)
                   IN  /\ Has(streaming_messages'[mid].contents, r.event.index)
                       /\ streaming_messages'[mid].contents[r.event.index] =
                             ContentState(kind, r.event.delta.text, Some(entry_index))
                       /\ Len(NewPatches) = 1
                       /\ NewPatches[1].op = "add"
                       /\ NewPatches[1].index = entry_index
                       /\ NewPatches[1].entry.kind =
                             (IF kind = "Text" THEN "AssistantMessage" ELSE "Thinking")
                       /\ NewPatches[1].entry.content = r.event.delta.text
                       /\ entry_index' = entry_index + 1
              ELSE /\ streaming_messages' = streaming_messages
                   /\ entry_index' = entry_index
                   /\ NewPatches = <<>>]_vars

\* message_start, then a text delta for block 0 that nothing announced
C23_Witness ==
    /\ agent = "claude"
    /\ feed = "partial"
    /\ Len(patches) = 1
    /\ patches[1].op = "add"
    /\ patches[1].entry.content = T("He")
    /\ streaming_message_id = Some("m1")
    /\ Has(streaming_messages, "m1")
    /\ streaming_messages["m1"].contents = Put(EmptyMap, 0, ContentState("Text", T("He"), Some(0)))

\* the statement of C23 as the specification words it: every delta for an
\* unannounced block index is dropped
C23_UnannouncedDeltaDropped ==
    [][\A r \in ClaudeRecs("stream_event") :
          (DeltaUnannounced(r) /\ ClaudeLine(r)) =>
              /\ streaming_messages' = streaming_messages
              /\ entry_index' = entry_index
              /\ NewPatches = <<>>]_vars

\* the patch is the Add of a `System initialized with model` entry
IsModelEntry(p) ==
    /\ p.op = "add"
    /\ p.entry.kind = "SystemMessage"
    /\ p.entry.content # <<>>
    /\ Head(p.entry.content) = "System initialized with model: "

\* the message a record delivers to extract_model_name, if it does
ModelMessage(r) ==
    IF r.type = "assistant" THEN Some(r.message)
    ELSE IF /\ r.type = "stream_event"
            /\ r.event.type = "message_start"
            /\ r.event.message.role = "assistant"
    THEN Some(r.event.message)
    ELSE None

\* r is the first record of the run that carries a model
FirstWithModel(r) ==
    /\ model_name = None
    /\ IsSome(ModelMessage(r))
    /\ IsSome(Get(ModelMessage(r)).model)

\* C24: the patch stream of a Claude run holds at most one Add of a
\* `System initialized with model: ...` SystemMessage. The first assistant
\* record or assistant message_start that carries a model appends it as its
\* first patch, at a fresh index and naming that model, so that it precedes
\* every patch made from the message's content and has a lower index than
\* every entry the record Adds; no other record appends one.
C24_ModelAnnouncedOnce ==
    [][/\ agent = "claude" =>
            Cardinality({k \in 1..Len(patches') : IsModelEntry(patches'[k])}) <= 1
       /\ \A r \in ClaudeFeed(feed) : ClaudeLine(r) =>
            IF FirstWithModel(r)
            THEN /\ NewPatches # <<>>
                 /\ NewPatches[1] = AddPatch(entry_index,
                       PlainEntry("SystemMessage",
                           <<"System initialized with model: ">>
                               \o Get(Get(ModelMessage(r)).model), NoMeta))
                 /\ model_name' = Get(ModelMessage(r)).model
                 /\ \A q \in 2..Len(NewPatches) :
                       /\ ~IsModelEntry(NewPatches[q])
                       /\ NewPatches[q].op = "add" => NewPatches[q].index > entry_index
            ELSE \A q \in 1..Len(NewPatches) : ~IsModelEntry(NewPatches[q])]_vars

\* a streamed message whose start carried no model, then its assistant record
\* with model and text: the announcement, then the Replace of the streamed text
C24_Witness ==
    /\ agent = "claude"
    /\ model_name = Some(Sonnet)
    /\ Len(patches) = 3
    /\ patches[1].op = "add"
    /\ patches[1].entry.content = T("He")
    /\ IsModelEntry(patches[2])
    /\ patches[2].index = 1
    /\ patches[3] = ReplacePatch(0, patches[3].entry)
    /\ patches[3].entry.content = T("Hello")

\* the statement of C24 as worded: the announcement has a lower index than
\* every entry the message's content produces, replaced ones included
C24_ModelAnnouncedBelowContent ==
    [][\A r \in ClaudeFeed(feed) : (ClaudeLine(r) /\ FirstWithModel(r)) =>
            /\ NewPatches # <<>>
            /\ IsModelEntry(NewPatches[1])
            /\ \A q \in 2..Len(NewPatches) :
                  NewPatches[q].index > NewPatches[1].index]_vars

\* the content items of a message that are not tool results, in order
OtherItems(message) == SelectSeq(message.content, LAMBDA it : it.type # "tool_result")

\* the patch shows the content item: kind and text of a text or thinking
\* item, a ToolUse entry for a tool_use item
ShowsItem(p, item) ==
    CASE item.type = "text" ->
            p.entry.kind = "AssistantMessage" /\ p.entry.content = item.text
      [] item.type = "thinking" ->
            p.entry.kind = "Thinking" /\ p.entry.content = item.text
      [] OTHER -> p.entry = tool_use_entry(item.tool_data, Some("item"))

\* C25: under the Default strategy a `result` record and a top-level
\* `tool_result` record append no patch, take no index and leave tool_map
\* and the streaming state as they were; an assistant record that holds a
\* tool_result item appends, after the model announcement if it makes one,
\* exactly one patch per other content item, in the order of the items, and
\* registers in tool_map nothing but its tool_use items.
C25_ResultsIgnoredByDefault ==
    [][strategy = "Default" =>
        /\ \A r \in ClaudeRecs("result") \cup ClaudeRecs("tool_result") :
              ClaudeLine(r) =>
                  /\ NewPatches = <<>>
                  /\ entry_index' = entry_index
                  /\ tool_map' = tool_map
                  /\ streaming_messages' = streaming_messages
                  /\ streaming_message_id' = streaming_message_id
        /\ \A r \in ClaudeRecs("assistant") :
              (/\ ClaudeLine(r)
               /\ \E k \in 1..Len(r.message.content) :
                     r.message.content[k].type = "tool_result") =>
                  LET others == OtherItems(r.message)
                      out == IF FirstWithModel(r) THEN Tail(NewPatches) ELSE NewPatches
                  IN  /\ Len(out) = Len(others)
                      /\ \A q \in 1..Len(others) : ShowsItem(out[q], others[q])
                      /\ entry_index' = entry_index
                            + Cardinality({q \in 1..Len(NewPatches) :
                                              NewPatches[q].op = "add"})
                      /\ DOMAIN tool_map' = DOMAIN tool_map
                            \cup {others[q].id : q \in {j \in 1..Len(others) :
                                                       others[j].type = "tool_use"}}]_vars

\* an assistant record with thinking, a tool_result and text gave two entries
C25_Witness ==
    /\ agent = "claude"
    /\ strategy = "Default"
    /\ feed = "tools"
    /\ Len(patches) = 2
    /\ patches[1] = AddPatch(0, PlainEntry("Thinking", T("hm"), Some("item")))
    /\ patches[2] = AddPatch(1, PlainEntry("AssistantMessage", T("Hi"), Some("item")))
    /\ tool_map = EmptyMap

\* the billing warning entry
BillingWarning ==
    PlainEntry("ErrorMessage", T("Claude Code + ANTHROPIC_API_KEY detected."), NoMeta)

\* C26: a `system` record appends the billing-warning ErrorMessage, as its
\* first patch and at a fresh index, exactly when its apiKeySource is
\* ANTHROPIC_API_KEY, and appends no ErrorMessage otherwise; a system record
\* of subtype `init` appends nothing else, so without that key source it
\* appends no patch and takes no index.
C26_BillingWarningForApiKey ==
    [][\A r \in ClaudeRecs("system") : ClaudeLine(r) =>
          LET keyed == r.api_key_source = Some(T("ANTHROPIC_API_KEY"))
              rest == IF keyed THEN Tail(NewPatches) ELSE NewPatches
          IN  /\ keyed => /\ NewPatches # <<>>
                          /\ NewPatches[1] = AddPatch(entry_index, BillingWarning)
              /\ \A q \in 1..Len(rest) : rest[q].entry.kind # "ErrorMessage"
              /\ r.subtype = Some(T("init")) =>
                    /\ rest = <<>>
                    /\ entry_index' = entry_index + (IF keyed THEN 1 ELSE 0)
              /\ r.subtype # Some(T("init")) =>
                    /\ Len(rest) = 1
                    /\ rest[1].op = "add"
                    /\ rest[1].entry.kind = "SystemMessage"]_vars

\* an init record with the key source, then one with another key source
C26_Witness ==
    /\ agent = "claude"
    /\ feed = "mixed"
    /\ Len(patches) = 2
    /\ patches[1] = AddPatch(0, BillingWarning)
    /\ patches[2].op = "add"
    /\ patches[2].index = 1
    /\ patches[2].entry.content = <<"System: ", "status">>

\* C27: a complete non-empty stdout line that is neither parseable JSON nor
\* a recognized marker appends exactly one patch, the Add of a SystemMessage
\* at a fresh index, in the Claude normalizer and in the Codex normalizer.
C27_StrayLineReported ==
    [][last_stray' =>
          /\ Len(NewPatches) = 1
          /\ NewPatches[1].op = "add"
          /\ NewPatches[1].index = entry_index
          /\ NewPatches[1].entry.kind = "SystemMessage"
          /\ entry_index' = entry_index + 1]_vars

\* the processor as process_logs constructs it
NewSt ==
    LineState([idx |-> 0, out |-> <<>>, model_name |-> None, tool_map |-> EmptyMap,
               sm |-> EmptyMap, smid |-> None, answered |-> EmptyMap,
               streamed |-> EmptyMap], FALSE, <<>>)

\* the text of the Stdout records among the first n records
RECURSIVE TextOf(_, _)
TextOf(rs, n) ==
    IF n = 0 THEN <<>>
    ELSE TextOf(rs, n - 1) \o (IF rs[n].t = "Stdout" THEN rs[n].chunk ELSE <<>>)

\* the newline-terminated lines of a text, and what follows the last newline
WholeLines(text) ==
    LET pieces == SplitOn(text, "\n")
    IN  [k \in 1..(Len(pieces) - 1) |-> Append(pieces[k], "\n")]
Remainder(text) == LET pieces == SplitOn(text, "\n") IN pieces[Len(pieces)]

\* every line of the text ends with a newline
NewlineTerminated(text) == text # <<>> /\ text[Len(text)] = "\n"

\* C28: however the stdout text is cut into Stdout records, once the loop
\* has taken the first records of the stream the store holds exactly the
\* patches and session ids that the newline-terminated lines of their joint
\* text give when processed once each, in order, and the buffer holds
\* exactly what follows the last newline; so for a text whose lines are all
\* newline-terminated every way of cutting it ends with the same patches
\* and the same session-id push and an empty buffer.
C28_ChunkingInvisible ==
    (agent = "stream" /\ ~done) =>
        LET text == TextOf(records, cursor)
            R == process_lines(NewSt, strategy, WholeLines(text))
        IN  /\ patches = R.P.out
            /\ session_ids = R.sids
            /\ entry_index = R.P.idx
            /\ buffer = Remainder(text)
            /\ (cursor = Len(records) /\ unwritten = <<>> /\ NewlineTerminated(stdout_text))
                  => buffer = <<>>

\* two lines written in three or more pieces, one of them ending inside a
\* line, all taken by the loop
C28_Witness ==
    /\ agent = "stream"
    /\ stdout_text = Wire("system") \o Wire("assistant")
    /\ unwritten = <<>>
    /\ ~done
    /\ cursor = Len(records)
    /\ cursor >= 3
    /\ \E k \in 1..Len(records) :
          records[k].t = "Stdout" /\ records[k].chunk[Len(records[k].chunk)] # "\n"
    /\ Len(patches) = 3
    /\ session_ids = <<"s1">>
    /\ buffer = <<>>

\* what a whole run over a stdout text produces: its lines processed in
\* order, then the unterminated rest reported when Finished arrives
WholeRun(text) ==
    LET R == process_lines(NewSt, "Default", WholeLines(text))
        rest == trim(Remainder(text))
    IN  IF rest = <<>> THEN R
        ELSE [R EXCEPT !.P = EmitAdd(@, PlainEntry("SystemMessage", rest, NoMeta))]

\* C29: when the loop of process_logs has ended on Finished, the store holds
\* the patches and session ids of the whole stdout text, whether
\* normalize_logs ran while the records were still being pushed or only
\* after all of them and Finished were in the history; a normalizer that
\* attached late has read every record from the history and has pushed its
\* patches to the store all the same.
C29_LateAttachmentSamePatches ==
    (agent = "stream" /\ done) =>
        /\ attached \in {"live", "late"}
        /\ cursor = Len(records)
        /\ records[cursor] = FinishedMsg
        /\ TextOf(records, cursor) = stdout_text
        /\ patches = WholeRun(stdout_text).P.out
        /\ session_ids = WholeRun(stdout_text).sids
        /\ entry_index = WholeRun(stdout_text).P.idx

\* normalize_logs ran after Finished was pushed, and the run is over
C29_Witness ==
    /\ agent = "stream"
    /\ attached = "late"
    /\ subscribed_at = Len(records)
    /\ Len(records) >= 3
    /\ done
    /\ stdout_text = <<" ", "ready", "\n">> \o Wire("assistant")
    /\ Len(patches) = 3
    /\ patches[1] = AddPatch(0, PlainEntry("SystemMessage", T("ready"), NoMeta))
    /\ session_ids = <<"s2">>

\* The consumer's `entries` array after one patch: an Add at an index at or
\* past the length appends (below it, inserts), a Replace below the length
\* updates, a Remove below the length deletes and closes the gap
apply_patch(entries, p) ==
    CASE p.op = "add" ->
            IF p.index >= Len(entries) THEN Append(entries, p.entry)
            ELSE SubSeq(entries, 1, p.index) \o <<p.entry>>
                 \o SubSeq(entries, p.index + 1, Len(entries))
      [] p.op = "replace" ->
            IF p.index < Len(entries) THEN [entries EXCEPT ![p.index + 1] = p.entry]
            ELSE entries
      [] OTHER ->
            IF p.index < Len(entries)
            THEN SubSeq(entries, 1, p.index) \o SubSeq(entries, p.index + 2, Len(entries))
            ELSE entries

\* the consumer's array after the patches, applied in order
RECURSIVE apply_patches(_, _)
apply_patches(entries, ps) ==
    IF ps = <<>> THEN entries ELSE apply_patches(apply_patch(entries, Head(ps)), Tail(ps))

\* the text items of a message, in order
TextItems(message) == SelectSeq(message.content, LAMBDA it : it.type = "text")

\* C30: under AmpResume a user record that holds text, processed while
\* n > 0 indices are allocated, appends n Removes before anything else, then
\* one UserMessage Add per text item at the indices 0, 1, ... and nothing
\* more; the allocator then stands at the number of text items, tool_map is
\* empty, and a consumer that applies the patches in order holds exactly
\* those UserMessage entries: no earlier entry survives.
C30_AmpResumeErasesHistory ==
    [][\A r \in ClaudeRecs("user") :
          (/\ strategy = "AmpResume"
           /\ HasTextItem(r.message)
           /\ entry_index > 0
           /\ ClaudeLine(r)) =>
              LET n == entry_index
                  texts == TextItems(r.message)
                  added == [k \in 1..Len(texts) |->
                               PlainEntry("UserMessage", texts[k].text, Some("item"))]
              IN  /\ Len(apply_patches(<<>>, patches)) = n
                  /\ Len(NewPatches) = n + Len(texts)
                  /\ \A k \in 1..n : NewPatches[k].op = "remove"
                  /\ \A k \in 1..Len(texts) : NewPatches[n + k] = AddPatch(k - 1, added[k])
                  /\ entry_index' = Len(texts)
                  /\ tool_map' = EmptyMap
                  /\ apply_patches(<<>>, patches') = added]_vars

\* two entries, then a user record with text: two Removes and the
\* UserMessage at index 0
C30_Witness ==
    /\ agent = "claude"
    /\ strategy = "AmpResume"
    /\ Len(patches) = 5
    /\ patches[1].op = "add" /\ patches[2].op = "add"
    /\ patches[3].op = "remove" /\ patches[4].op = "remove"
    /\ patches[5] = AddPatch(0, PlainEntry("UserMessage", T("go"), Some("item")))
    /\ entry_index = 1
    /\ tool_map = EmptyMap
    /\ apply_patches(<<>>, patches) = <<PlainEntry("UserMessage", T("go"), Some("item"))>>

\* =========================================================================
\* Executor driver properties
\* =========================================================================
\* C31 (as stated): the hook is told to wait APPROVAL_TIMEOUT_SECONDS + 5 and
\* the hook process itself is given APPROVAL_TIMEOUT_SECONDS + 10 seconds.
C31_HookTimeoutPlusTen ==
    IsSome(hook_settings) =>
        /\ Get(hook_settings).timeout_seconds = APPROVAL_TIMEOUT_SECONDS + 5
        /\ Get(hook_settings).timeout = APPROVAL_TIMEOUT_SECONDS + 10

\* C31 (amended): the hook is told to wait APPROVAL_TIMEOUT_SECONDS + 5 and
\* the hook process is given ten seconds more than that, which is
\* APPROVAL_TIMEOUT_SECONDS + 15.
C31_HookTimeouts ==
    IsSome(hook_settings) =>
        /\ Get(hook_settings).timeout_seconds = APPROVAL_TIMEOUT_SECONDS + 5
        /\ Get(hook_settings).timeout = Get(hook_settings).timeout_seconds + 10
        /\ Get(hook_settings).timeout = APPROVAL_TIMEOUT_SECONDS + 15

C31_Witness == command_built /\ IsSome(hook_settings)

\* C32: a line of the Copilot stdout that starts with the session marker
\* pushes the trimmed rest of the line as a session id and produces no patch
\* and nothing for the plain-text processor; any other line is handed to the
\* plain-text processor with its newline restored and pushes no session id;
\* and the driver appends at most one marker line.
C32_CopilotMarker ==
    /\ [](appended <= 1)
    /\ [][CopilotLine =>
            LET line == stdout_lines_stream(combined_stdout)[line_cursor + 1]
            IN  IF Len(line) > 0 /\ Head(line) = SESSION_PREFIX
                THEN /\ session_ids' = Append(session_ids, trim(Tail(line)))
                     /\ patches' = patches
                     /\ handed' = handed
                ELSE /\ session_ids' = session_ids
                     /\ handed' = Append(handed, line \o <<"\n">>)]_vars

\* the driver's marker line has been read, after a line of text was
C32_Witness ==
    /\ appended = 1
    /\ session_ids = <<SessionUuid>>
    /\ Len(handed) > 0
    /\ line_cursor = Len(stdout_lines_stream(combined_stdout))

\* =========================================================================
\* No input aborts a normalizer
\* =========================================================================
\* the places where the Codex loop unwraps, seen from the step that runs them:
\* get_mut(&call_id).unwrap() after the insert of a begin event,
\* entry.as_ref().unwrap() after a streaming slot was filled,
\* entries.last_mut().unwrap() after the push of a fresh patch entry, and the
\* unreachable!() of the all-text branch of an MCP result
CodexUnwrapsHold ==
    /\ \A l \in CodexEvents("ExecCommandBegin") :
          CodexLine(l, on_exec_command_begin(CurS, l.event))
          /\ Join(l.event.command, <<" ">>) # <<>>
          => Has(commands', l.event.call_id)
    /\ \A l \in CodexEvents("McpToolCallBegin") :
          CodexLine(l, on_mcp_tool_call_begin(CurS, l.event))
          => Has(mcp_tools', l.event.call_id)
    /\ \A l \in CodexEvents("WebSearchBegin") :
          CodexLine(l, on_web_search_begin(CurS, l.event))
          => Has(web_searches', l.event.call_id)
    /\ \A l \in CodexEvents("AgentMessageDelta") :
          CodexLine(l, on_agent_message_delta(CurS, l.event)) => IsSome(assistant')
    /\ \A l \in CodexEvents("AgentReasoningDelta") :
          CodexLine(l, on_agent_reasoning_delta(CurS, l.event)) => IsSome(thinking')
    /\ \A l \in CodexEvents("PatchApplyBegin") :
          CodexLine(l, on_patch_apply_begin(CurS, l.event))
          /\ normalize_file_changes(l.event.changes) # <<>>
          => /\ Has(state_patches', l.event.call_id)
             /\ state_patches'[l.event.call_id] # <<>>
    /\ \A l \in CodexEvents("McpToolCallEnd") :
          CodexLine(l, on_mcp_tool_call_end(CurS, l.event))
          /\ l.event.result.ok /\ mcp_result(l.event.result).type = "Markdown"
          => \A k \in 1..Len(l.event.result.content) :
                 l.event.result.content[k].t = "text"

\* the places where the Claude processor indexes: parts[1] and parts[2] of an
\* mcp__ tool name are read only when the name has three parts
ClaudeIndexingHolds ==
    \A id \in DOMAIN tool_map :
        LET name == get_name(tool_map[id].tool_data)
        IN  starts_with_mcp(name) /\ display_tool_name(tool_map[id]) # name
            => Len(SplitOn(name, "__")) >= 3

C34_AddsInIndexOrder ==
    feed = "shared" =>
        \A i \in 1..Len(patches), j \in 1..Len(patches) :
            i < j /\ patches[i].op = "add" /\ patches[j].op = "add"
            => patches[i].index < patches[j].index

\* ------------------------------------------------------------------------
\* The feedback queue across the client's tasks
\* ------------------------------------------------------------------------
\* the place in the enqueue order of the message a spawned request carries
EnqueuePosition(request) ==
    CHOOSE e \in DOMAIN enqueued :
        request.text = spawn_feedback_message(request.conversation_id, trim(enqueued[e].text)).text

\* C35: the sendUserMessage requests are written to the peer in the order in
\* which their messages were enqueued, within one flush and across flushes
C35_WireFifo ==
    agent = "peer" =>
        \A a \in DOMAIN wire : \A b \in DOMAIN wire :
            a < b => EnqueuePosition(requests[wire[a]]) < EnqueuePosition(requests[wire[b]])

\* the spawned requests that carry the message enqueued at place e
RequestsFor(e) ==
    {k \in DOMAIN requests :
        requests[k].text = spawn_feedback_message(requests[k].conversation_id,
                                                  trim(enqueued[e].text)).text}

\* C36: a message that was enqueued is sent at most once, also when the
\* flush of register_session and the flush of a turn_aborted overlap
C36_SentAtMostOnce ==
    agent = "peer" =>
        /\ \A e \in DOMAIN enqueued : Cardinality(RequestsFor(e)) <= 1
        /\ \A a \in DOMAIN wire : \A b \in DOMAIN wire : wire[a] = wire[b] => a = b

\* both flushes held drained messages at once and both have spawned theirs
C36_Witness ==
    /\ agent = "peer"
    /\ Len(enqueued) = 2
    /\ issued_by = <<"turn_aborted", "register_session">>
    /\ RequestsFor(1) = {2}
    /\ RequestsFor(2) = {1}
    /\ Len(wire) = 2

\* ------------------------------------------------------------------------
\* The approval round trip
\* ------------------------------------------------------------------------
\* the latest handler call did its steps in the order status, log record,
\* one response with the request's id, and then the feedback if there is one
RoundTripInOrder ==
    LET E == handled.effects
        id == handled.id
    IN  /\ Len(E) \in {3, 4}
        /\ SubSeq(E, 1, 3) = <<[t |-> "status", id |-> id], [t |-> "log", id |-> id],
                               [t |-> "response", id |-> id]>>
        /\ Len(E) = 4 =>
            /\ E[4] = [t |-> "enqueue", id |-> id]
            /\ IsSome(handled.feedback)
            /\ enqueued # <<>>
            /\ enqueued[Len(enqueued)].text = Get(handled.feedback)
        /\ peer_task.pc # "responded" => (Len(E) = 4 <=> IsSome(handled.feedback))
        /\ peer_task.pc = "responded" => Len(E) = 3 /\ IsSome(handled.feedback)

Quiescent ==
    /\ peer_task = Idle
    /\ aborts_owed = 0
    /\ driver_task.pc # "drained"

C37_BeginUpdatesApprovalEntry ==
    [][\A l \in CodexEvents("ExecCommandBegin") :
        (/\ CodexLine(l, on_exec_command_begin(CurS, l.event))
         /\ l.event.command # <<>>
         /\ Has(commands, l.event.call_id)
         /\ IsSome(commands[l.event.call_id].index)) =>
            /\ Len(NewPatches) = 1
            /\ NewPatches[1].op = "replace"
            /\ NewPatches[1].index = Get(commands[l.event.call_id].index)
            /\ entry_index' = entry_index
            /\ commands'[l.event.call_id].index = commands[l.event.call_id].index]_vars

\* ------------------------------------------------------------------------
\* Targets of Replace and Remove
\* ------------------------------------------------------------------------
\* a consumer that holds n entries applies the patches in order: every
\* Replace and every Remove must name one of the entries it holds then
RECURSIVE TargetsHeld(_, _)
TargetsHeld(n, ps) ==
    IF ps = <<>> THEN TRUE
    ELSE LET p == Head(ps) IN
         CASE p.op = "add" -> TargetsHeld(n + 1, Tail(ps))
           [] p.op = "replace" -> p.index < n /\ TargetsHeld(n, Tail(ps))
           [] OTHER -> p.index < n /\ TargetsHeld(n - 1, Tail(ps))

\* C39: every Replace and every Remove the Claude normalizer emits targets
\* an entry that an earlier Add of the run introduced and no earlier Remove
\* deleted, also after the erase of AmpResume
C39_TargetsLive ==
    agent = "claude" => TargetsHeld(0, patches)

====
